---- MODULE Spec2Model ----
(***************************************************************************)
(* State-machine model of the ez-ledger credit card engine:                *)
(*   - the payment state machine (models/payment.go, payment_service.go),  *)
(*   - the statement / points / cashback ledgers and the services that     *)
(*     write them (credit card service, reconciliation service, points     *)
(*     ledger service, cashback service, fee service),                     *)
(*   - the database rows they touch, with the CHECK constraints of the     *)
(*     migrations.                                                         *)
(* Money is counted in cents, points in whole points, time in days.        *)
(***************************************************************************)
EXTENDS Integers, Sequences, FiniteSets, TLC

VARIABLES
    payment,          \* the models.Payment the payment service works on
    transitions,      \* PaymentStatusTransition records returned so far
    paymentLedger,    \* StatementLedgerEntry values returned in PaymentResult.LedgerEntry
    svc,              \* PaymentService wiring: which collaborators are non-nil
    clock,            \* the injected "now", in days
    stmtEntries,      \* table statement_ledger_entries
    pointsEntries,    \* table points_ledger_entries
    cashbackEntries,  \* table cashback_ledger_entries
    cardRow,          \* table credit_cards (the one card of the account)
    cardObj,          \* the *models.CreditCard the caller passes in requests
    procs,            \* concurrent callers: program counter and locals
    lastCall,         \* the last service call: operation, arguments, outcome
    nCalls,           \* number of service calls made so far
    cycles,           \* table billing_cycles (of the one card)
    ledgerUpdates     \* UPDATE statements issued on statement_ledger_entries

vars == <<payment, transitions, paymentLedger, svc, clock, stmtEntries,
          pointsEntries, cashbackEntries, cardRow, cardObj, procs,
          lastCall, nCalls, cycles, ledgerUpdates>>

storeVars   == <<stmtEntries, pointsEntries, cashbackEntries, cardRow>>

-----------------------------------------------------------------------------
(* Bounds of the model.                                                    *)

MaxRetriesMax == 3
MaxClock == 2
MaxFees == 2
MaxCalls == 3
MaxCallsBoth == 2

-----------------------------------------------------------------------------
NoEntry == [etype |-> "none", amount |-> 0]
NoTime == -1

(* The applied amounts a payment is created with (WithAmount sets          *)
(* AppliedAmount = Amount), in cents.                                      *)
PaymentAmounts == {2500, 10000}

(* CreditCard.FailedPaymentFee as CreditCardDefaults sets it, in cents.    *)
CardFailedPaymentFee == 3500

\* validTransitions[p.Status] of Payment.CanTransitionTo with an edge too many:
\* pending may be cleared without being processed.
ValidTransitions_Loose(status) ==
    CASE status = "pending"    -> {"processing", "cancelled", "cleared"}
      [] status = "processing" -> {"cleared", "failed", "cancelled"}
      [] status = "cleared"    -> {"returned", "reversed"}
      [] status = "failed"     -> {"pending"}
      [] OTHER                 -> {}

ValidTransitions(status) ==
    CASE status = "pending"    -> {"processing", "cancelled"}
      [] status = "processing" -> {"cleared", "failed", "cancelled"}
      [] status = "cleared"    -> {"returned", "reversed"}
      [] status = "failed"     -> {"pending"}
      [] status = "returned"   -> {}
      [] status = "cancelled"  -> {}
      [] status = "reversed"   -> {}
      [] OTHER                 -> {}

CanTransitionTo(p, newStatus) == newStatus \in ValidTransitions(p.status)

\* CanRetry without the attempt limit.
CanRetry_NoLimit(p) == p.status = "failed"

CanRetry(p) == p.status = "failed" /\ p.attemptCount < p.maxRetries

(* StatementLedgerEntry.IsDebit / GetSignedAmount.                         *)
DebitTypes ==
    {"transaction", "cash_advance", "fee_late", "fee_failed", "fee_international",
     "fee_interest", "fee_over_limit", "fee_annual", "fee_cash_advance",
     "returned_reward"}

CreditTypes == {"payment", "refund", "reward", "credit", "cashback_redeemed"}

IsDebit(e) ==
    IF e.etype \in DebitTypes THEN TRUE
    ELSE IF e.etype \in CreditTypes THEN FALSE
    ELSE IF e.etype \in {"adjustment", "cashback_earned"} THEN e.amount > 0
    ELSE FALSE

Abs(x) == IF x < 0 THEN -x ELSE x

GetSignedAmount(e) == IF IsDebit(e) THEN Abs(e.amount) ELSE -Abs(e.amount)

RECURSIVE SignedSum(_)
SignedSum(s) == IF s = <<>> THEN 0 ELSE GetSignedAmount(Head(s)) + SignedSum(Tail(s))

(* One audit record per successful transition (PaymentStatusTransition).   *)
Transition(from, to) == [from |-> from, to |-> to]

PayCall(op, err, p, entry) ==
    [op |-> op, err |-> err, from |-> p.status, attempts |-> p.attemptCount,
     entry |-> entry]

otherThanPayment ==
    <<stmtEntries, pointsEntries, cashbackEntries, cardRow, cardObj, procs, nCalls,
      cycles, ledgerUpdates>>

-----------------------------------------------------------------------------
(* PaymentService operations.  Every operation may be requested in every   *)
(* status; a refused request returns an error and changes nothing.         *)

\* ProcessPayment that does not count the attempt.
ProcessPayment_NoCount ==
    /\ IF ~CanTransitionTo(payment, "processing")
       THEN /\ lastCall' = PayCall("process", "invalid_transition", payment, NoEntry)
            /\ UNCHANGED <<payment, transitions>>
       ELSE /\ payment' = [payment EXCEPT !.previousStatus = payment.status,
                                          !.status = "processing"]
            /\ transitions' = Append(transitions, Transition(payment.status, "processing"))
            /\ lastCall' = PayCall("process", "none", payment, NoEntry)
    /\ UNCHANGED <<paymentLedger, svc, clock>>
    /\ UNCHANGED otherThanPayment

ProcessPayment ==
    /\ IF ~CanTransitionTo(payment, "processing")
       THEN /\ lastCall' = PayCall("process", "invalid_transition", payment, NoEntry)
            /\ UNCHANGED <<payment, transitions>>
       ELSE /\ payment' = [payment EXCEPT !.previousStatus = payment.status,
                                          !.status = "processing",
                                          !.attemptCount = @ + 1]
            /\ transitions' = Append(transitions, Transition(payment.status, "processing"))
            /\ lastCall' = PayCall("process", "none", payment, NoEntry)
    /\ UNCHANGED <<paymentLedger, svc, clock>>
    /\ UNCHANGED otherThanPayment

ClearPayment ==
    /\ IF ~CanTransitionTo(payment, "cleared")
       THEN /\ lastCall' = PayCall("clear", "invalid_transition", payment, NoEntry)
            /\ UNCHANGED <<payment, transitions, paymentLedger>>
       ELSE LET entry == IF svc.ledgerService
                         THEN [etype |-> "payment", amount |-> payment.appliedAmount]
                         ELSE NoEntry
            IN /\ payment' = [payment EXCEPT !.previousStatus = payment.status,
                                             !.status = "cleared"]
               /\ transitions' = Append(transitions, Transition(payment.status, "cleared"))
               /\ paymentLedger' = IF svc.ledgerService
                                   THEN Append(paymentLedger, entry) ELSE paymentLedger
               /\ lastCall' = PayCall("clear", "none", payment, entry)
    /\ UNCHANGED <<svc, clock>>
    /\ UNCHANGED otherThanPayment

\* FailPayment that puts a retryable payment straight back to pending.
FailPayment_AutoRetry ==
    /\ IF ~CanTransitionTo(payment, "failed")
       THEN /\ lastCall' = PayCall("fail", "invalid_transition", payment, NoEntry)
            /\ UNCHANGED <<payment, transitions>>
       ELSE LET failed == [payment EXCEPT !.previousStatus = payment.status,
                                          !.status = "failed"]
            IN /\ payment' = IF CanRetry(failed)
                             THEN [failed EXCEPT !.status = "pending"]
                             ELSE failed
               /\ transitions' = Append(transitions, Transition(payment.status, "failed"))
               /\ lastCall' = PayCall("fail", "none", payment, NoEntry)
    /\ UNCHANGED <<paymentLedger, svc, clock>>
    /\ UNCHANGED otherThanPayment

FailPayment ==
    /\ IF ~CanTransitionTo(payment, "failed")
       THEN /\ lastCall' = PayCall("fail", "invalid_transition", payment, NoEntry)
            /\ UNCHANGED <<payment, transitions>>
       ELSE LET failed == [payment EXCEPT !.previousStatus = payment.status,
                                          !.status = "failed"]
            IN /\ payment' = IF CanRetry(failed)
                             THEN [failed EXCEPT !.nextRetryAt = clock + 1]
                             ELSE failed
               /\ transitions' = Append(transitions, Transition(payment.status, "failed"))
               /\ lastCall' = PayCall("fail", "none", payment, NoEntry)
    /\ UNCHANGED <<paymentLedger, svc, clock>>
    /\ UNCHANGED otherThanPayment

(* The reversal entry of ReturnPayment and ReversePayment: an adjustment   *)
(* whose Amount is payment.AppliedAmount.Neg().                            *)
ReversalEntry(p) == [etype |-> "adjustment", amount |-> -p.appliedAmount]

ReturnPayment ==
    /\ IF ~CanTransitionTo(payment, "returned")
       THEN /\ lastCall' = PayCall("return", "invalid_transition", payment, NoEntry)
            /\ UNCHANGED <<payment, transitions, paymentLedger>>
       ELSE LET entry == IF svc.ledgerService THEN ReversalEntry(payment) ELSE NoEntry
            IN /\ payment' = [payment EXCEPT !.previousStatus = payment.status,
                                             !.status = "returned"]
               /\ transitions' = Append(transitions, Transition(payment.status, "returned"))
               /\ paymentLedger' = IF svc.ledgerService
                                   THEN Append(paymentLedger, entry) ELSE paymentLedger
               /\ lastCall' = PayCall("return", "none", payment, entry)
    /\ UNCHANGED <<svc, clock>>
    /\ UNCHANGED otherThanPayment

CancelPayment ==
    /\ IF ~CanTransitionTo(payment, "cancelled")
       THEN /\ lastCall' = PayCall("cancel", "invalid_transition", payment, NoEntry)
            /\ UNCHANGED <<payment, transitions>>
       ELSE /\ payment' = [payment EXCEPT !.previousStatus = payment.status,
                                          !.status = "cancelled"]
            /\ transitions' = Append(transitions, Transition(payment.status, "cancelled"))
            /\ lastCall' = PayCall("cancel", "none", payment, NoEntry)
    /\ UNCHANGED <<paymentLedger, svc, clock>>
    /\ UNCHANGED otherThanPayment

ReversePayment ==
    /\ IF ~CanTransitionTo(payment, "reversed")
       THEN /\ lastCall' = PayCall("reverse", "invalid_transition", payment, NoEntry)
            /\ UNCHANGED <<payment, transitions, paymentLedger>>
       ELSE LET entry == IF svc.ledgerService THEN ReversalEntry(payment) ELSE NoEntry
            IN /\ payment' = [payment EXCEPT !.previousStatus = payment.status,
                                             !.status = "reversed"]
               /\ transitions' = Append(transitions, Transition(payment.status, "reversed"))
               /\ paymentLedger' = IF svc.ledgerService
                                   THEN Append(paymentLedger, entry) ELSE paymentLedger
               /\ lastCall' = PayCall("reverse", "none", payment, entry)
    /\ UNCHANGED <<svc, clock>>
    /\ UNCHANGED otherThanPayment

RetryPayment ==
    /\ IF ~CanRetry(payment)
       THEN /\ lastCall' = PayCall("retry", "cannot_retry", payment, NoEntry)
            /\ UNCHANGED <<payment, transitions>>
       ELSE IF ~CanTransitionTo(payment, "pending")
       THEN /\ lastCall' = PayCall("retry", "invalid_transition", payment, NoEntry)
            /\ UNCHANGED <<payment, transitions>>
       ELSE /\ payment' = [payment EXCEPT !.previousStatus = payment.status,
                                          !.status = "pending",
                                          !.nextRetryAt = NoTime]
            /\ transitions' = Append(transitions, Transition(payment.status, "pending"))
            /\ lastCall' = PayCall("retry", "none", payment, NoEntry)
    /\ UNCHANGED <<paymentLedger, svc, clock>>
    /\ UNCHANGED otherThanPayment

(* GetPendingPaymentsForRetry(payments, now), as a filter on a set.        *)
GetPendingPaymentsForRetry(payments, now) ==
    {p \in payments : CanRetry(p) /\ p.nextRetryAt # NoTime /\ ~(p.nextRetryAt > now)}

(* The clock collaborator moves on.                                        *)
Tick ==
    /\ clock < MaxClock
    /\ clock' = clock + 1
    /\ UNCHANGED <<payment, transitions, paymentLedger, svc, lastCall>>
    /\ UNCHANGED otherThanPayment

-----------------------------------------------------------------------------
(* The statement ledger table and StatementLedgerService.CreateEntry.      *)
(* A row: id, entry type, amount in cents, status, ref (the id of the      *)
(* statement entry the row refers to in its metadata, 0 if none),          *)
(* statementId (the billing cycle the row is assigned to, 0 for NULL) and  *)
(* the posting date (the request's PostingDate, the day of the call).      *)

FeeTypes ==
    {"fee_late", "fee_failed", "fee_international", "fee_interest",
     "fee_over_limit", "fee_annual", "fee_cash_advance"}

StmtEntry(etype, amount, ref) ==
    [id |-> 0, etype |-> etype, amount |-> amount, status |-> "pending", ref |-> ref,
     statementId |-> 0, postingDate |-> clock]

(* CHECK no_negative_fees: entry_type NOT LIKE 'fee_%' OR amount >= 0.     *)
StatementCheckOK(e) == e.etype \notin FeeTypes \/ e.amount >= 0

(* uuid.New(): an id no row of the table has.                              *)
NewStatementId(tbl) == Len(tbl) + 1

(* The INSERT of CreateEntry, run on the service's *sql.DB handle: it is   *)
(* committed as soon as it returns.                                        *)
CreateEntry(tbl, e) == Append(tbl, [e EXCEPT !.id = NewStatementId(tbl)])

(* The credit card the services are handed: a new card with the values of  *)
(* CreditCardDefaults (cashback 1.5%, international fee 3.0%, both in      *)
(* hundredths of a percent; redemption minimum $25) and a $5,000 limit,    *)
(* nothing of it used.  For billing: purchase APR 19.99% and penalty APR   *)
(* 29.99% (hundredths of a percent), late fee $35, payment due 25 days     *)
(* after the cycle's end, minimum payment 2% of the balance or $25,        *)
(* over-limit fee $35, no annual fee; the card was created on day 0 and    *)
(* has had no statement yet.                                               *)
CardConfig ==
    [creditLimit |-> 500000, availableCredit |-> 500000, status |-> "active",
     cashbackEnabled |-> TRUE, cashbackRate |-> 150, cashbackRedemptionMin |-> 2500,
     failedPaymentFee |-> CardFailedPaymentFee, internationalFeeRate |-> 300,
     lastPaymentAmount |-> 0,
     purchaseAPR |-> 1999, penaltyAPR |-> 2999, latePaymentFee |-> 3500,
     paymentDueDays |-> 25, minimumPaymentPercent |-> 200,
     minimumPaymentAmount |-> 2500, createdAt |-> 0, lastStatementDate |-> NoTime,
     consecutiveLateCount |-> 0, overLimitFee |-> 3500, annualFee |-> 0]

(* FeeService.AssessFailedPaymentFee: one fee_failed row of the card's     *)
(* failed payment fee; no eligibility test, no dedupe.  dbFails is the     *)
(* storage collaborator refusing the INSERT.                               *)
FailedPaymentFeeEntry(card) == StmtEntry("fee_failed", card.failedPaymentFee, 0)

FeeService_AssessFailedPaymentFee(tbl, card, dbFails) ==
    IF dbFails \/ ~StatementCheckOK(FailedPaymentFeeEntry(card))
    THEN [err |-> "persistence", tbl |-> tbl, fee |-> 0]
    ELSE [err |-> "none", tbl |-> CreateEntry(tbl, FailedPaymentFeeEntry(card)),
          fee |-> card.failedPaymentFee]

NumOfType(tbl, etype) == Cardinality({i \in 1..Len(tbl) : tbl[i].etype = etype})

(* PaymentService.AssessFailedPaymentFee: only for failed or returned      *)
(* payments, only with a fee service.                                      *)
PaymentService_AssessFailedPaymentFee(dbFails) ==
    /\ NumOfType(stmtEntries, "fee_failed") < MaxFees
    /\ IF payment.status \notin {"failed", "returned"}
       THEN /\ lastCall' = PayCall("assess_fee", "not_failed_or_returned", payment, NoEntry)
            /\ UNCHANGED stmtEntries
       ELSE IF ~svc.feeService
       THEN /\ lastCall' = PayCall("assess_fee", "no_fee_service", payment, NoEntry)
            /\ UNCHANGED stmtEntries
       ELSE LET r == FeeService_AssessFailedPaymentFee(stmtEntries, cardObj, dbFails)
            IN /\ stmtEntries' = r.tbl
               /\ lastCall' = PayCall("assess_fee", r.err, payment,
                                      IF r.err = "none"
                                      THEN [etype |-> "fee_failed", amount |-> r.fee]
                                      ELSE NoEntry)
    /\ UNCHANGED <<payment, transitions, paymentLedger, svc, clock>>
    /\ UNCHANGED <<pointsEntries, cashbackEntries, cardRow, cardObj, procs, nCalls>>
    /\ UNCHANGED <<cycles, ledgerUpdates>>

-----------------------------------------------------------------------------
(* The payment state machine on its own: one payment, as built by          *)
(* NewPaymentBuilder (pending, no attempt made), with the retry limit and  *)
(* amount it was given, served by a PaymentService with or without its     *)
(* collaborators.                                                          *)

NoCall == [op |-> "none", err |-> "none"]

InitPayment ==
    /\ payment \in [status : {"pending"}, previousStatus : {"none"},
                    attemptCount : {0}, maxRetries : 0..MaxRetriesMax,
                    appliedAmount : PaymentAmounts, nextRetryAt : {NoTime}]
    /\ transitions = <<>>
    /\ paymentLedger = <<>>
    /\ svc \in [ledgerService : BOOLEAN, feeService : BOOLEAN]
    /\ clock = 0
    /\ stmtEntries = <<>>
    /\ pointsEntries = <<>>
    /\ cashbackEntries = <<>>
    /\ cardRow = CardConfig
    /\ cardObj = CardConfig
    /\ procs = <<>>
    /\ lastCall = NoCall
    /\ nCalls = 0
    /\ cycles = <<>>
    /\ ledgerUpdates = 0

NextPayment ==
    \/ ProcessPayment
    \/ ClearPayment
    \/ FailPayment
    \/ ReturnPayment
    \/ CancelPayment
    \/ ReversePayment
    \/ RetryPayment
    \/ \E dbFails \in BOOLEAN : PaymentService_AssessFailedPaymentFee(dbFails)
    \/ Tick

SpecPayment == InitPayment /\ [][NextPayment]_vars

-----------------------------------------------------------------------------
(* The points and cashback ledgers.                                        *)

(* Purchase, payment and refund amounts of the model, in cents ($2,000 and *)
(* $3,000).  The percentages below come out in whole cents for them, as    *)
(* they do in the decimal arithmetic of the code.                          *)
Amounts == {200000, 300000}

(* Points a redemption asks for; cashback amounts (cents) a redemption     *)
(* asks for.                                                               *)
RedeemPoints == {20, 30}
RedeemAmounts == {2000, 3000}

NoMax == -1

(* decimal.IntPart of a / b: truncation towards zero (b > 0).              *)
IntPart(a, b) == IF a >= 0 THEN a \div b ELSE -((-a) \div b)

(* decimal.Round(2) of a / b cents: to the nearest cent, halves away from  *)
(* zero (b > 0).                                                           *)
RoundDiv(a, b) ==
    LET m == IF a >= 0 THEN a ELSE -a
        q == (m \div b) + (IF 2 * (m % b) >= b THEN 1 ELSE 0)
    IN IF a >= 0 THEN q ELSE -q

(* The PointsEarningRule the reconciliation service is constructed with    *)
(* (PointsPerDollar 0.01, MinAmount $1.00, no cap): PointsPerDollar in     *)
(* hundredths, MinAmount in cents.                                         *)
DefaultPointsRule == [pointsPerDollar |-> 1, minAmount |-> 100, maxPoints |-> NoMax]

(* PointsEarningRule.CalculatePointsEarned, amount in cents.               *)
CalculatePointsEarned(r, amount) ==
    IF amount < r.minAmount THEN 0
    ELSE LET points == IntPart(amount * r.pointsPerDollar, 10000)
         IN IF r.maxPoints # NoMax /\ points > r.maxPoints THEN r.maxPoints ELSE points

PointsEntry(etype, points, stmtId, txAmount, rate) ==
    [id |-> 0, etype |-> etype, points |-> points, stmtId |-> stmtId,
     txAmount |-> txAmount, rate |-> rate]

(* CHECK earned_points_positive and redeemed_points_impact.                *)
PointsCheckOK(e) ==
    /\ e.etype \in {"earned_transaction", "earned_refund"} => e.points > 0
    /\ e.etype \in {"redeemed_spent", "redeemed_cancelled", "redeemed_refunded"}
          => e.points # 0

(* PointsLedgerService.CreateEntry: the INSERT, on the *sql.DB handle.     *)
PointsCreateEntry(tbl, e) == Append(tbl, [e EXCEPT !.id = Len(tbl) + 1])

RECURSIVE SumPoints(_)
SumPoints(tbl) ==
    IF tbl = <<>> THEN 0 ELSE tbl[1].points + SumPoints(Tail(tbl))

(* PointsLedgerService.GetBalance: available_points of the points_balances *)
(* view, SUM(points); zero when the tenant has no row.                     *)
AvailablePoints(tbl) == SumPoints(tbl)

\* ValidateRedemption that lets every request through.
ValidateRedemption_NoCheck(tbl, pointsToRedeem) == "none"

(* PointsLedgerService.ValidateRedemption.                                 *)
ValidateRedemption(tbl, pointsToRedeem) ==
    IF AvailablePoints(tbl) < pointsToRedeem THEN "insufficient_points" ELSE "none"

CashbackEntry(etype, amount, stmtId, txAmount) ==
    [id |-> 0, etype |-> etype, amount |-> amount, stmtId |-> stmtId,
     txAmount |-> txAmount]

(* CHECK earned_positive and redeemed_negative.                            *)
CashbackCheckOK(e) ==
    /\ e.etype = "earned" => e.amount > 0
    /\ e.etype = "redeemed" => e.amount < 0

(* CashbackService.createEntry.                                            *)
CashbackCreateEntry(tbl, e) == Append(tbl, [e EXCEPT !.id = Len(tbl) + 1])

RECURSIVE SumAmounts(_)
SumAmounts(tbl) ==
    IF tbl = <<>> THEN 0 ELSE tbl[1].amount + SumAmounts(Tail(tbl))

(* CashbackService.GetBalance: available_balance = COALESCE(SUM(amount),0) *)
CashbackAvailable(tbl) == SumAmounts(tbl)

(* CashbackService.getEarningRule: the base rate is read from the card's   *)
(* row, the minimum transaction is one cent.                               *)
GetEarningRule(row) == [baseRate |-> row.cashbackRate, minTransaction |-> 1]

(* CashbackEarningRule.CalculateCashback without category bonus or cap:    *)
(* amount * rate / 100 rounded to the cent (rate in hundredths of a        *)
(* percent).                                                               *)
CalculateCashback(rule, amount) ==
    IF amount < rule.minTransaction THEN 0 ELSE RoundDiv(amount * rule.baseRate, 10000)

(* CashbackService.EarnCashback.                                           *)
EarnCashback(tbl, card, row, amount, stmtId, dbFails) ==
    IF ~card.cashbackEnabled THEN [err |-> "none", tbl |-> tbl]
    ELSE LET cashbackAmount == CalculateCashback(GetEarningRule(row), amount)
             e == CashbackEntry("earned", cashbackAmount, stmtId, amount)
         IN IF cashbackAmount <= 0 THEN [err |-> "none", tbl |-> tbl]
            ELSE IF dbFails \/ ~CashbackCheckOK(e) THEN [err |-> "persistence", tbl |-> tbl]
            ELSE [err |-> "none", tbl |-> CashbackCreateEntry(tbl, e)]

(* CashbackService.getEntryByStatementEntryID: the rows the query matches  *)
(* (LIMIT 1 takes one of them).                                            *)
EntriesByStatementEntryID(tbl, stmtId) ==
    {tbl[i] : i \in {j \in 1..Len(tbl) : tbl[j].stmtId = stmtId}}

(* CashbackService.AdjustCashbackForRefund for the matched original entry. *)
AdjustCashbackForRefund(tbl, original, refundAmount, refundEntryId, dbFails) ==
    LET proportional == IF original.txAmount # 0
                        THEN RoundDiv(original.amount * refundAmount, original.txAmount)
                        ELSE original.amount
        deductAmount == IF proportional > original.amount THEN original.amount
                        ELSE proportional
        e == CashbackEntry("earned_refund", -deductAmount, refundEntryId, refundAmount)
    IN IF dbFails \/ ~CashbackCheckOK(e) THEN [err |-> "persistence", tbl |-> tbl]
       ELSE [err |-> "none", tbl |-> CashbackCreateEntry(tbl, e)]

(* CreditCard.CanTransact and CreditCard.HasAvailableCredit.               *)
CanTransact(card) ==
    CASE card.status = "frozen" -> "card_frozen"
      [] card.status = "closed" -> "card_closed"
      [] OTHER -> "none"

(* A HasAvailableCredit that also refuses a purchase of exactly the        *)
(* available credit.                                                       *)
HasAvailableCredit_Strict(card, amount) ==
    IF amount >= card.availableCredit THEN "insufficient_credit" ELSE "none"

HasAvailableCredit(card, amount) ==
    IF amount > card.availableCredit THEN "insufficient_credit" ELSE "none"

(* CreditCard.CalculateInternationalFee: amount * rate / 100, not rounded. *)
(* With the amount in cents and the rate in hundredths of a percent the    *)
(* result is in ten-thousandths of a cent.                                 *)
CalculateInternationalFee(card, amount) == amount * card.internationalFeeRate

(* FeeService.AssessInternationalFee.  The fee is tested unrounded; the    *)
(* column amount DECIMAL(15,2) rounds it to cents when the row is stored,  *)
(* as available_credit does with the total charged.                        *)
AssessInternationalFee(tbl, card, amount, dbFails) ==
    LET feeAmount == CalculateInternationalFee(card, amount)
        e == StmtEntry("fee_international", RoundDiv(feeAmount, 10000), 0)
    IN IF feeAmount <= 0 THEN [err |-> "none", tbl |-> tbl, fee |-> 0]
       ELSE IF dbFails \/ ~StatementCheckOK(e)
       THEN [err |-> "persistence", tbl |-> tbl, fee |-> 0]
       ELSE [err |-> "none", tbl |-> CreateEntry(tbl, e),
             fee |-> RoundDiv(feeAmount, 10000)]

LedgerCall(op, err, amount) == [op |-> op, err |-> err, amount |-> amount]

notLedger == <<payment, transitions, paymentLedger, svc, clock, procs, cycles,
               ledgerUpdates>>

-----------------------------------------------------------------------------
(* LedgerReconciliationService and PointsLedgerService.  Every handler     *)
(* opens a transaction with BeginTx and defers its Rollback, but issues    *)
(* each INSERT through the service's *sql.DB handle, outside that          *)
(* transaction: a row is durable as soon as its INSERT returns.  failAt    *)
(* names the statement the store refuses, if any.                          *)

(* LedgerReconciliationService.RecordTransaction.                          *)
Recon_RecordTransaction(amount, earnPoints, failAt) ==
    /\ nCalls < MaxCalls
    /\ LET e       == StmtEntry("transaction", amount, 0)
           stmtOK  == failAt # "statement" /\ StatementCheckOK(e)
           stmtId  == NewStatementId(stmtEntries)
           rule    == DefaultPointsRule
           earned  == CalculatePointsEarned(rule, amount)
           pe      == PointsEntry("earned_transaction", earned, stmtId, amount,
                                  rule.pointsPerDollar)
           wants   == stmtOK /\ earnPoints /\ earned > 0
           ptsOK   == failAt # "points" /\ PointsCheckOK(pe)
           err     == IF ~stmtOK \/ (wants /\ ~ptsOK) \/ failAt = "commit"
                      THEN "persistence" ELSE "none"
       IN /\ stmtEntries' = IF stmtOK THEN CreateEntry(stmtEntries, e) ELSE stmtEntries
          /\ pointsEntries' = IF wants /\ ptsOK THEN PointsCreateEntry(pointsEntries, pe)
                              ELSE pointsEntries
          /\ lastCall' = LedgerCall("recon_transaction", err, amount)
    /\ nCalls' = nCalls + 1
    /\ UNCHANGED <<cashbackEntries, cardRow, cardObj>>
    /\ UNCHANGED notLedger

(* LedgerReconciliationService.RecordPayment.                              *)
Recon_RecordPayment(amount, failAt) ==
    /\ nCalls < MaxCalls
    /\ LET e      == StmtEntry("payment", amount, 0)
           stmtOK == failAt # "statement" /\ StatementCheckOK(e)
       IN /\ stmtEntries' = IF stmtOK THEN CreateEntry(stmtEntries, e) ELSE stmtEntries
          /\ lastCall' = LedgerCall("recon_payment",
                                    IF stmtOK THEN "none" ELSE "persistence", amount)
    /\ nCalls' = nCalls + 1
    /\ UNCHANGED <<pointsEntries, cashbackEntries, cardRow, cardObj>>
    /\ UNCHANGED notLedger

(* The rows the refund's query for the original points matches:            *)
(* statement_entry_id = $1 AND entry_type = 'earned_transaction'.          *)
OriginalPointsRows(tbl, originalTransactionID) ==
    {tbl[i] : i \in {j \in 1..Len(tbl) :
                        /\ tbl[j].stmtId = originalTransactionID
                        /\ tbl[j].etype = "earned_transaction"}}

(* LedgerReconciliationService.RecordRefund.                               *)
Recon_RecordRefund(amount, originalTransactionID, adjustPoints, failAt) ==
    /\ nCalls < MaxCalls
    /\ LET e        == StmtEntry("refund", amount, 0)
           stmtOK   == failAt # "statement" /\ StatementCheckOK(e)
           refundId == NewStatementId(stmtEntries)
           found    == OriginalPointsRows(pointsEntries, originalTransactionID)
       IN \E original \in IF found = {} THEN {PointsEntry("none", 0, 0, 0, 0)} ELSE found :
            LET wants   == stmtOK /\ adjustPoints /\ original.points > 0
                scaled  == IntPart(amount * original.rate, 10000)
                pointsToDeduct == IF scaled > original.points THEN original.points
                                  ELSE scaled
                pe      == PointsEntry("earned_refund", -pointsToDeduct, refundId,
                                       amount, original.rate)
                ptsOK   == failAt # "points" /\ PointsCheckOK(pe)
                err     == IF ~stmtOK \/ (wants /\ ~ptsOK) \/ failAt = "commit"
                           THEN "persistence" ELSE "none"
            IN /\ stmtEntries' = IF stmtOK THEN CreateEntry(stmtEntries, e)
                                 ELSE stmtEntries
               /\ pointsEntries' = IF wants /\ ptsOK
                                   THEN PointsCreateEntry(pointsEntries, pe)
                                   ELSE pointsEntries
               /\ lastCall' = LedgerCall("recon_refund", err, amount)
    /\ nCalls' = nCalls + 1
    /\ UNCHANGED <<cashbackEntries, cardRow, cardObj>>
    /\ UNCHANGED notLedger

(* The redeemed_spent row of a redemption: the statement link is set on    *)
(* the Go value after the INSERT, so the stored row has none.              *)
RedemptionEntry(pointsToRedeem) == PointsEntry("redeemed_spent", -pointsToRedeem, 0, 0, 0)

(* LedgerReconciliationService.RecordRewardRedemption.                     *)
Recon_RecordRewardRedemption(pointsToRedeem, creditAmount, failAt) ==
    /\ nCalls < MaxCalls
    /\ LET valid  == ValidateRedemption(pointsEntries, pointsToRedeem)
           pe     == RedemptionEntry(pointsToRedeem)
           ptsOK  == valid = "none" /\ failAt # "points" /\ PointsCheckOK(pe)
           e      == StmtEntry("reward", creditAmount, Len(pointsEntries) + 1)
           stmtOK == ptsOK /\ failAt # "statement" /\ StatementCheckOK(e)
           err    == IF valid # "none" THEN valid
                     ELSE IF ~stmtOK \/ failAt = "commit" THEN "persistence"
                     ELSE "none"
       IN /\ pointsEntries' = IF ptsOK THEN PointsCreateEntry(pointsEntries, pe)
                              ELSE pointsEntries
          /\ stmtEntries' = IF stmtOK THEN CreateEntry(stmtEntries, e) ELSE stmtEntries
          /\ lastCall' = [op |-> "recon_redemption", err |-> err,
                          amount |-> creditAmount, points |-> pointsToRedeem]
    /\ nCalls' = nCalls + 1
    /\ UNCHANGED <<cashbackEntries, cardRow, cardObj>>
    /\ UNCHANGED notLedger

(* PointsLedgerService.RecordRedemption (redemption on an external         *)
(* platform: points ledger only).                                          *)
Points_RecordRedemption(pointsSpent, failAt) ==
    /\ nCalls < MaxCalls
    /\ LET valid == ValidateRedemption(pointsEntries, pointsSpent)
           pe    == RedemptionEntry(pointsSpent)
           ptsOK == valid = "none" /\ failAt # "points" /\ PointsCheckOK(pe)
           err   == IF valid # "none" THEN valid
                    ELSE IF ~ptsOK THEN "persistence" ELSE "none"
       IN /\ pointsEntries' = IF ptsOK THEN PointsCreateEntry(pointsEntries, pe)
                              ELSE pointsEntries
          /\ lastCall' = [op |-> "points_redemption", err |-> err,
                          amount |-> 0, points |-> pointsSpent]
    /\ nCalls' = nCalls + 1
    /\ UNCHANGED <<stmtEntries, cashbackEntries, cardRow, cardObj>>
    /\ UNCHANGED notLedger

-----------------------------------------------------------------------------
(* CreditCardService and CashbackService.  As above, the writes go through *)
(* the *sql.DB handle and not through the transaction the handler opened.  *)
(* The handlers read limit and available credit from the CreditCard value  *)
(* of the request (cardObj) and write the card's row (cardRow).            *)

(* CreditCardService.GetCreditCard: the caller reloads the card.           *)
GetCreditCard ==
    /\ cardObj' = cardRow
    /\ UNCHANGED <<stmtEntries, pointsEntries, cashbackEntries, cardRow, lastCall, nCalls>>
    /\ UNCHANGED notLedger

(* CreditCardService.RecordTransaction.                                    *)
CC_RecordTransaction(amount, isInternational, failAt) ==
    /\ nCalls < MaxCalls
    /\ IF CanTransact(cardObj) # "none" \/ HasAvailableCredit(cardObj, amount) # "none"
       THEN /\ lastCall' = LedgerCall("cc_transaction",
                                      IF CanTransact(cardObj) # "none"
                                      THEN CanTransact(cardObj)
                                      ELSE HasAvailableCredit(cardObj, amount),
                                      amount)
            /\ UNCHANGED <<stmtEntries, cashbackEntries, cardRow>>
       ELSE LET e        == StmtEntry("transaction", amount, 0)
                stmtOK   == failAt # "statement" /\ StatementCheckOK(e)
                txId     == NewStatementId(stmtEntries)
                tbl1     == IF stmtOK THEN CreateEntry(stmtEntries, e) ELSE stmtEntries
                fee      == IF stmtOK /\ isInternational /\ cardObj.internationalFeeRate > 0
                            THEN AssessInternationalFee(tbl1, cardObj, amount, failAt = "fee")
                            ELSE [err |-> "none", tbl |-> tbl1, fee |-> 0]
                feeOK    == stmtOK /\ fee.err = "none"
                cb       == IF feeOK /\ cardObj.cashbackEnabled
                            THEN EarnCashback(cashbackEntries, cardObj, cardRow, amount,
                                              txId, failAt = "cashback")
                            ELSE [err |-> "none", tbl |-> cashbackEntries]
                cbOK     == feeOK /\ cb.err = "none"
                totalCharged == amount + fee.fee
                newAvailableCredit == cardObj.availableCredit - totalCharged
                creditOK == cbOK /\ failAt # "credit"
                err      == IF creditOK /\ failAt # "commit" THEN "none" ELSE "persistence"
            IN /\ stmtEntries' = fee.tbl
               /\ cashbackEntries' = cb.tbl
               /\ cardRow' = IF creditOK
                             THEN [cardRow EXCEPT !.availableCredit = newAvailableCredit]
                             ELSE cardRow
               /\ lastCall' = LedgerCall("cc_transaction", err, amount)
    /\ nCalls' = nCalls + 1
    /\ UNCHANGED <<pointsEntries, cardObj>>
    /\ UNCHANGED notLedger

(* A variant of RecordPayment that also earns cashback on the payment.     *)
CC_RecordPayment_EarnsCashback(amount, failAt) ==
    /\ nCalls < MaxCalls
    /\ stmtEntries' = CreateEntry(stmtEntries, StmtEntry("payment", amount, 0))
    /\ cashbackEntries' = EarnCashback(cashbackEntries, cardObj, cardRow, amount,
                                       NewStatementId(stmtEntries), FALSE).tbl
    /\ lastCall' = LedgerCall("cc_payment", "none", amount)
    /\ nCalls' = nCalls + 1
    /\ UNCHANGED <<pointsEntries, cardRow, cardObj>>
    /\ UNCHANGED notLedger

(* CreditCardService.RecordPayment.                                        *)
CC_RecordPayment(amount, failAt) ==
    /\ nCalls < MaxCalls
    /\ LET e         == StmtEntry("payment", amount, 0)
           stmtOK    == failAt # "statement" /\ StatementCheckOK(e)
           raised    == cardObj.availableCredit + amount
           newAvailableCredit == IF raised > cardObj.creditLimit THEN cardObj.creditLimit
                                 ELSE raised
           creditOK  == stmtOK /\ failAt # "credit"
           lastOK    == creditOK /\ failAt # "last_payment"
           err       == IF lastOK /\ failAt # "commit" THEN "none" ELSE "persistence"
       IN /\ stmtEntries' = IF stmtOK THEN CreateEntry(stmtEntries, e) ELSE stmtEntries
          /\ cardRow' = [cardRow EXCEPT
                           !.availableCredit = IF creditOK THEN newAvailableCredit ELSE @,
                           !.lastPaymentAmount = IF lastOK THEN amount ELSE @]
          /\ lastCall' = LedgerCall("cc_payment", err, amount)
    /\ nCalls' = nCalls + 1
    /\ UNCHANGED <<pointsEntries, cashbackEntries, cardObj>>
    /\ UNCHANGED notLedger

(* CreditCardService.RecordRefund.                                         *)
CC_RecordRefund(refundAmount, originalTransactionID, failAt) ==
    /\ nCalls < MaxCalls
    /\ LET e        == StmtEntry("refund", refundAmount, originalTransactionID)
           stmtOK   == failAt # "statement" /\ StatementCheckOK(e)
           refundId == NewStatementId(stmtEntries)
           found    == EntriesByStatementEntryID(cashbackEntries, originalTransactionID)
           raised   == cardObj.availableCredit + refundAmount
           newAvailableCredit == IF raised > cardObj.creditLimit THEN cardObj.creditLimit
                                 ELSE raised
       IN \E original \in IF found = {} THEN {CashbackEntry("none", 0, 0, 0)} ELSE found :
            LET cb == IF stmtOK /\ cardObj.cashbackEnabled /\ found # {}
                      THEN AdjustCashbackForRefund(cashbackEntries, original, refundAmount,
                                                   refundId, failAt = "cashback")
                      ELSE [err |-> "none", tbl |-> cashbackEntries]
                cbOK     == stmtOK /\ cb.err = "none"
                creditOK == cbOK /\ failAt # "credit"
                err      == IF creditOK /\ failAt # "commit" THEN "none" ELSE "persistence"
            IN /\ stmtEntries' = IF stmtOK THEN CreateEntry(stmtEntries, e)
                                 ELSE stmtEntries
               /\ cashbackEntries' = cb.tbl
               /\ cardRow' = IF creditOK
                             THEN [cardRow EXCEPT !.availableCredit = newAvailableCredit]
                             ELSE cardRow
               /\ lastCall' = LedgerCall("cc_refund", err, refundAmount)
    /\ nCalls' = nCalls + 1
    /\ UNCHANGED <<pointsEntries, cardObj>>
    /\ UNCHANGED notLedger

(* CashbackService.RedeemCashback.                                         *)
RedeemCashback(amount, redeemAs, failAt) ==
    /\ nCalls < MaxCalls
    /\ IF amount > CashbackAvailable(cashbackEntries)
       THEN /\ lastCall' = LedgerCall("redeem_cashback", "insufficient_cashback", amount)
            /\ UNCHANGED <<stmtEntries, cashbackEntries>>
       ELSE IF amount < cardObj.cashbackRedemptionMin
       THEN /\ lastCall' = LedgerCall("redeem_cashback", "below_minimum", amount)
            /\ UNCHANGED <<stmtEntries, cashbackEntries>>
       ELSE LET ce     == CashbackEntry("redeemed", -amount, 0, 0)
                cbOK   == failAt # "cashback" /\ CashbackCheckOK(ce)
                e      == StmtEntry("cashback_redeemed", amount, Len(cashbackEntries) + 1)
                wants  == cbOK /\ redeemAs = "statement_credit"
                stmtOK == failAt # "statement" /\ StatementCheckOK(e)
                err    == IF ~cbOK \/ (wants /\ ~stmtOK) \/ failAt = "commit"
                          THEN "persistence" ELSE "none"
            IN /\ cashbackEntries' = IF cbOK THEN CashbackCreateEntry(cashbackEntries, ce)
                                     ELSE cashbackEntries
               /\ stmtEntries' = IF wants /\ stmtOK THEN CreateEntry(stmtEntries, e)
                                 ELSE stmtEntries
               /\ lastCall' = LedgerCall("redeem_cashback", err, amount)
    /\ nCalls' = nCalls + 1
    /\ UNCHANGED <<pointsEntries, cardRow, cardObj>>
    /\ UNCHANGED notLedger

-----------------------------------------------------------------------------
(* The ledgers served one call at a time: an empty store, a fresh card,    *)
(* and any sequence of calls to the reconciliation, points, credit card    *)
(* and cashback services.                                                  *)

IdlePayment ==
    [status |-> "pending", previousStatus |-> "none", attemptCount |-> 0,
     maxRetries |-> 3, appliedAmount |-> 2500, nextRetryAt |-> NoTime]

InitLedger ==
    /\ payment = IdlePayment
    /\ transitions = <<>>
    /\ paymentLedger = <<>>
    /\ svc = [ledgerService |-> TRUE, feeService |-> TRUE]
    /\ clock = 0
    /\ stmtEntries = <<>>
    /\ pointsEntries = <<>>
    /\ cashbackEntries = <<>>
    /\ cardRow = CardConfig
    /\ cardObj = CardConfig
    /\ procs = <<>>
    /\ lastCall = NoCall
    /\ nCalls = 0
    /\ cycles = <<>>
    /\ ledgerUpdates = 0

(* Ids a refund request can name as its original transaction: those of the *)
(* statement entries written so far and one that no entry has.             *)
KnownIds == 0..Len(stmtEntries)

NextRecon ==
    \/ \E a \in Amounts, ep \in BOOLEAN, f \in {"none", "statement", "points", "commit"} :
          Recon_RecordTransaction(a, ep, f)
    \/ \E a \in Amounts, f \in {"none", "statement"} : Recon_RecordPayment(a, f)
    \/ \E a \in Amounts, o \in KnownIds, ap \in BOOLEAN,
          f \in {"none", "statement", "points", "commit"} :
          Recon_RecordRefund(a, o, ap, f)
    \/ \E p \in RedeemPoints, f \in {"none", "points", "statement", "commit"} :
          Recon_RecordRewardRedemption(p, p, f)
    \/ \E p \in RedeemPoints, f \in {"none", "points"} : Points_RecordRedemption(p, f)

(* The reconciliation service and the points ledger service.               *)
SpecRecon == InitLedger /\ [][NextRecon]_vars

NextCard ==
    \/ GetCreditCard
    \/ \E a \in Amounts, intl \in BOOLEAN,
          f \in {"none", "statement", "fee", "cashback", "credit", "commit"} :
          CC_RecordTransaction(a, intl, f)
    \/ \E a \in Amounts, f \in {"none", "statement", "credit", "last_payment", "commit"} :
          CC_RecordPayment(a, f)
    \/ \E a \in Amounts, o \in KnownIds,
          f \in {"none", "statement", "cashback", "credit", "commit"} :
          CC_RecordRefund(a, o, f)
    \/ \E a \in RedeemAmounts, r \in {"statement_credit", "check"},
          f \in {"none", "cashback", "statement", "commit"} :
          RedeemCashback(a, r, f)

(* The credit card service and the cashback service.                       *)
SpecCard == InitLedger /\ [][NextCard]_vars

(* CreditCardService.FreezeCard, UnfreezeCard and CloseCard: each is one   *)
(* UPDATE of the status of the card's row (frozen, active, closed).        *)
CC_SetStatus(fn, dbFails) ==
    /\ nCalls < MaxCalls
    /\ cardRow' = IF dbFails THEN cardRow
                  ELSE [cardRow EXCEPT !.status =
                          CASE fn = "freeze_card" -> "frozen"
                            [] fn = "unfreeze_card" -> "active"
                            [] fn = "close_card" -> "closed"]
    /\ lastCall' = LedgerCall(fn, IF dbFails THEN "persistence" ELSE "none", 0)
    /\ nCalls' = nCalls + 1
    /\ UNCHANGED <<stmtEntries, pointsEntries, cashbackEntries, cardObj>>
    /\ UNCHANGED notLedger

(* Purchases on a card that is frozen, unfrozen and closed meanwhile.      *)
NextStatus ==
    \/ GetCreditCard
    \/ \E fn \in {"freeze_card", "unfreeze_card", "close_card"}, d \in BOOLEAN :
          CC_SetStatus(fn, d)
    \/ \E a \in Amounts : CC_RecordTransaction(a, FALSE, "none")

SpecStatus == InitLedger /\ [][NextStatus]_vars

(* All four services on one store, for a shorter sequence of calls.        *)
NextLedger ==
    \/ nCalls < MaxCallsBoth /\ NextRecon
    \/ nCalls < MaxCallsBoth /\ NextCard

SpecLedger == InitLedger /\ [][NextLedger]_vars

-----------------------------------------------------------------------------
(* Two callers inside LedgerReconciliationService.RecordRewardRedemption   *)
(* at once.  Each call is a sequence of database statements (the balance   *)
(* query of ValidateRedemption, the two INSERTs, the COMMIT of its empty   *)
(* transaction); statements of the two calls interleave freely, every one  *)
(* of them being committed on its own.                                     *)

Procs == {1, 2}

(* Purchases that stocked the account before the redemptions arrive.       *)
StockingPurchases == {300000, 400000}

SetPc(p, pc, err) == [procs EXCEPT ![p].pc = pc, ![p].err = err]

concFrame == <<payment, transitions, paymentLedger, svc, clock, cashbackEntries,
               cardRow, cardObj, lastCall, nCalls, cycles, ledgerUpdates>>

(* Step 1: ValidateRedemption reads the balance.                           *)
Redeem_Validate(p) ==
    /\ procs[p].pc = "validate"
    /\ LET valid == ValidateRedemption(pointsEntries, procs[p].points)
       IN procs' = IF valid # "none" THEN SetPc(p, "done", valid)
                   ELSE SetPc(p, "insert_points", "none")
    /\ UNCHANGED <<stmtEntries, pointsEntries>>
    /\ UNCHANGED concFrame

(* Step 2: INSERT of the redeemed_spent row.                               *)
Redeem_InsertPoints(p) ==
    /\ procs[p].pc = "insert_points"
    /\ LET pe == RedemptionEntry(procs[p].points)
       IN IF PointsCheckOK(pe)
          THEN /\ pointsEntries' = PointsCreateEntry(pointsEntries, pe)
               /\ procs' = SetPc(p, "insert_statement", "none")
          ELSE /\ procs' = SetPc(p, "done", "persistence")
               /\ UNCHANGED pointsEntries
    /\ UNCHANGED stmtEntries
    /\ UNCHANGED concFrame

(* Step 3: INSERT of the reward credit.                                    *)
Redeem_InsertStatement(p) ==
    /\ procs[p].pc = "insert_statement"
    /\ LET e == StmtEntry("reward", procs[p].points, 0)
       IN IF StatementCheckOK(e)
          THEN /\ stmtEntries' = CreateEntry(stmtEntries, e)
               /\ procs' = SetPc(p, "commit", "none")
          ELSE /\ procs' = SetPc(p, "done", "persistence")
               /\ UNCHANGED stmtEntries
    /\ UNCHANGED pointsEntries
    /\ UNCHANGED concFrame

(* Step 4: tx.Commit and return.                                           *)
Redeem_Commit(p) ==
    /\ procs[p].pc = "commit"
    /\ procs' = SetPc(p, "done", "none")
    /\ UNCHANGED <<stmtEntries, pointsEntries>>
    /\ UNCHANGED concFrame

(* The account holds the points of one earlier purchase; each caller asks  *)
(* for some number of points.                                              *)
InitConc ==
    /\ payment = IdlePayment
    /\ transitions = <<>>
    /\ paymentLedger = <<>>
    /\ svc = [ledgerService |-> TRUE, feeService |-> TRUE]
    /\ clock = 0
    /\ \E a \in StockingPurchases :
          /\ stmtEntries = CreateEntry(<<>>, StmtEntry("transaction", a, 0))
          /\ pointsEntries =
                PointsCreateEntry(<<>>,
                    PointsEntry("earned_transaction",
                                CalculatePointsEarned(DefaultPointsRule, a), 1, a,
                                DefaultPointsRule.pointsPerDollar))
    /\ cashbackEntries = <<>>
    /\ cardRow = CardConfig
    /\ cardObj = CardConfig
    /\ procs \in [Procs -> [pc : {"validate"}, points : RedeemPoints, err : {"none"}]]
    /\ lastCall = NoCall
    /\ nCalls = 0
    /\ cycles = <<>>
    /\ ledgerUpdates = 0

NextConc ==
    \E p \in Procs :
        \/ Redeem_Validate(p)
        \/ Redeem_InsertPoints(p)
        \/ Redeem_InsertStatement(p)
        \/ Redeem_Commit(p)

SpecConc == InitConc /\ [][NextConc]_vars

-----------------------------------------------------------------------------
(* BillingService, InterestService and the late fee of FeeService.         *)
(* billing_cycles rows are kept in the order of their INSERT and a row's   *)
(* id is its position.  BillingService opens no transaction: each of its   *)
(* statements is committed when it returns.  Queries are taken to return.  *)

MaxCycles == 3
MaxMonths == 2
MaxBillingCalls == 3
MaxEntries == 2

(* AddDate(0, 1, -1): a month is counted as 30 days.                       *)
DaysPerMonth == 30

NoCycle == [id |-> 0]

(* NewBillingCycleBuilder ... Build: a cycle with status open; the columns *)
(* the builder does not set hold their zero values.                        *)
NewBillingCycle(card, cycleNumber, startDate, endDate, previousBalance) ==
    [id |-> 0, cycleNumber |-> cycleNumber,
     cycleStartDate |-> startDate, cycleEndDate |-> endDate,
     dueDate |-> endDate + card.paymentDueDays,
     previousBalance |-> previousBalance, paymentsReceived |-> 0,
     purchasesAmount |-> 0, cashAdvancesAmount |-> 0, refundsAmount |-> 0,
     feesAmount |-> 0, interestAmount |-> 0, adjustmentsAmount |-> 0,
     cashbackRedeemed |-> 0, newBalance |-> 0, minimumPayment |-> 0,
     paymentsMade |-> 0, lastPaymentAmount |-> 0, minimumPaymentMet |-> FALSE,
     status |-> "open"]

(* uuid.New() of the builder: an id no row of billing_cycles has.          *)
NewCycleId(tbl) == Len(tbl) + 1

(* CHECK valid_cycle_dates: cycle_end_date >= cycle_start_date.            *)
CycleCheckOK(c) == c.cycleEndDate >= c.cycleStartDate

(* A saveBillingCycle that writes over the row of the card's latest cycle.  *)
saveBillingCycle_Overwrite(tbl, c) ==
    IF tbl = <<>> THEN Append(tbl, [c EXCEPT !.id = NewCycleId(tbl)])
    ELSE [tbl EXCEPT ![Len(tbl)] = [c EXCEPT !.id = Len(tbl)]]

(* saveBillingCycle: the INSERT of the row.                                *)
saveBillingCycle(tbl, c) == Append(tbl, [c EXCEPT !.id = NewCycleId(tbl)])

(* getPreviousCycle: ORDER BY cycle_number DESC LIMIT 1.                   *)
getPreviousCycle(tbl) ==
    IF tbl = <<>> THEN NoCycle
    ELSE CHOOSE c \in {tbl[i] : i \in 1..Len(tbl)} :
            \A i \in 1..Len(tbl) : tbl[i].cycleNumber <= c.cycleNumber

(* BillingCycle.GetRemainingBalance.                                       *)
GetRemainingBalance(c) == c.newBalance - c.paymentsMade

(* A CalculateNewBalance that never reports a credit balance.              *)
CalculateNewBalance_Clamped(c) ==
    LET balance == c.previousBalance - c.paymentsReceived + c.purchasesAmount
                     + c.cashAdvancesAmount - c.refundsAmount + c.feesAmount
                     + c.interestAmount + c.adjustmentsAmount - c.cashbackRedeemed
    IN IF balance < 0 THEN 0 ELSE balance

(* BillingCycle.CalculateNewBalance.                                       *)
CalculateNewBalance(c) ==
    c.previousBalance - c.paymentsReceived + c.purchasesAmount
      + c.cashAdvancesAmount - c.refundsAmount + c.feesAmount
      + c.interestAmount + c.adjustmentsAmount - c.cashbackRedeemed

(* BillingCycle.IsOverdue.                                                 *)
IsOverdue(c, currentDate) == currentDate > c.dueDate /\ ~c.minimumPaymentMet

(* A CalculateMinimumPayment that asks for the fixed minimum even when     *)
(* less is owed.                                                           *)
CalculateMinimumPayment_FixedFloor(card, statementBalance) ==
    IF statementBalance <= 0 THEN 0
    ELSE LET percentMin == (statementBalance * card.minimumPaymentPercent) \div 10000
         IN IF percentMin < card.minimumPaymentAmount
            THEN card.minimumPaymentAmount
            ELSE percentMin

(* CreditCard.CalculateMinimumPayment.                                     *)
CalculateMinimumPayment(card, statementBalance) ==
    IF statementBalance <= 0 THEN 0
    ELSE LET percentMin == (statementBalance * card.minimumPaymentPercent) \div 10000
         IN IF percentMin < card.minimumPaymentAmount
            THEN IF statementBalance < card.minimumPaymentAmount
                 THEN statementBalance ELSE card.minimumPaymentAmount
            ELSE percentMin

(* CreditCard.GetEffectiveAPR for a card without an introductory rate.     *)
GetEffectiveAPR(card) ==
    IF card.status = "delinquent" THEN card.penaltyAPR ELSE card.purchaseAPR

(* The sum of the amounts (times sign) of the rows of the given types      *)
(* posted in [startDate, endDate] with status pending or cleared.          *)
RECURSIVE PeriodSum(_, _, _, _)
PeriodSum(tbl, types, startDate, endDate) ==
    IF tbl = <<>> THEN 0
    ELSE LET e == Head(tbl)
             counted == /\ e.etype \in types
                        /\ e.postingDate >= startDate /\ e.postingDate <= endDate
                        /\ e.status \in {"pending", "cleared"}
         IN (IF counted THEN e.amount ELSE 0)
            + PeriodSum(Tail(tbl), types, startDate, endDate)

(* populateCycleAmounts.                                                   *)
populateCycleAmounts(c, tbl) ==
    LET sum(types) == PeriodSum(tbl, types, c.cycleStartDate, c.cycleEndDate)
    IN [c EXCEPT !.purchasesAmount = sum({"transaction"}),
                 !.cashAdvancesAmount = sum({"cash_advance"}),
                 !.refundsAmount = sum({"refund"}),
                 !.paymentsReceived = sum({"payment"}),
                 !.feesAmount = sum(FeeTypes),
                 !.adjustmentsAmount = sum({"adjustment"}) - sum({"credit"}),
                 !.cashbackRedeemed = sum({"cashback_redeemed"})]

(* InterestCalculationMethod.                                              *)
InterestMethods == {"average_daily_balance", "daily_balance", "adjusted_balance"}

(* DefaultInterestConfig: MinimumInterestCharge, in cents.                 *)
MinimumInterestCharge == 50

(* What getDailyBalances returns, as runs of days with the same balance:   *)
(* empty, a month owing $100, a month owing nothing, and half a month in   *)
(* credit followed by half a month owing $100.                             *)
DailyBalanceRuns ==
    {<<>>,
     <<[balance |-> 10000, days |-> 30]>>,
     <<[balance |-> 0, days |-> 30]>>,
     <<[balance |-> -5000, days |-> 15], [balance |-> 10000, days |-> 15]>>}

RECURSIVE TotalBalance(_)
TotalBalance(runs) ==
    IF runs = <<>> THEN 0
    ELSE Head(runs).balance * Head(runs).days + TotalBalance(Tail(runs))

RECURSIVE TotalDays(_)
TotalDays(runs) == IF runs = <<>> THEN 0 ELSE Head(runs).days + TotalDays(Tail(runs))

(* A CalculateAverageDailyBalance that cuts the average to whole cents.     *)
CalculateAverageDailyBalance_Truncated(runs) ==
    IF runs = <<>> THEN 0 ELSE IntPart(TotalBalance(runs), TotalDays(runs))

(* models.CalculateAverageDailyBalance.                                    *)
CalculateAverageDailyBalance(runs) ==
    IF runs = <<>> THEN 0 ELSE RoundDiv(TotalBalance(runs), TotalDays(runs))

(* The daily periodic rate is APR / 365 / 100; with the APR in hundredths  *)
(* of a percent an amount times APR is divided by 365 * 100 * 100.         *)
DailyRateDivisor == 3650000

(* APR / 12 / 100, APR in hundredths of a percent.                         *)
MonthlyRateDivisor == 120000

(* calculateADBInterest: adb * dpr * days, rounded to cents.  The product  *)
(* adb * apr * days is formed in two parts, the thousands of adb and the   *)
(* rest, to stay within the integers of the model checker; the result is   *)
(* the exact quotient rounded once.                                        *)
calculateADBInterest(adb, apr, daysInCycle) ==
    IF adb <= 0 THEN 0
    ELSE LET k == apr * daysInCycle
             high == (adb \div 1000) * k
             low == (adb % 1000) * k
         IN (high \div (DailyRateDivisor \div 1000))
            + RoundDiv((high % (DailyRateDivisor \div 1000)) * 1000 + low,
                       DailyRateDivisor)

RECURSIVE PositiveBalanceDays(_)
PositiveBalanceDays(runs) ==
    IF runs = <<>> THEN 0
    ELSE (IF Head(runs).balance > 0 THEN Head(runs).balance * Head(runs).days ELSE 0)
         + PositiveBalanceDays(Tail(runs))

(* calculateDailyBalanceInterest.                                          *)
calculateDailyBalanceInterest(runs, apr) ==
    RoundDiv(PositiveBalanceDays(runs) * apr, DailyRateDivisor)

(* calculateAdjustedBalanceInterest.                                       *)
calculateAdjustedBalanceInterest(previousBalance, payments, apr) ==
    IF previousBalance - payments <= 0 THEN 0
    ELSE RoundDiv((previousBalance - payments) * apr, MonthlyRateDivisor)

(* A qualifiesForGracePeriod that ignores the previous cycle.              *)
qualifiesForGracePeriod_Never(tbl, currentCycle, queryFails) == FALSE

(* qualifiesForGracePeriod: the previous cycle is looked up by number and  *)
(* status paid_full; no such row means grace, a query that fails means no  *)
(* grace.                                                                  *)
qualifiesForGracePeriod(tbl, currentCycle, queryFails) ==
    LET rows == {tbl[i] : i \in {j \in 1..Len(tbl) :
                                   /\ tbl[j].cycleNumber = currentCycle.cycleNumber - 1
                                   /\ tbl[j].status = "paid_full"}}
    IN IF queryFails THEN FALSE
       ELSE IF rows = {} THEN TRUE
       ELSE LET prev == CHOOSE r \in rows : TRUE
            IN prev.paymentsMade >= prev.newBalance

(* A CalculateInterest that raises an interest of zero to the minimum.     *)
CalculateInterest_FloorsZero(card, cycle, tbl, method, runs, graceFails) ==
    LET apr == GetEffectiveAPR(card)
        daysInCycle == cycle.cycleEndDate - cycle.cycleStartDate + 1
        adb == CalculateAverageDailyBalance(runs)
        raw == CASE method = "daily_balance" ->
                      calculateDailyBalanceInterest(runs, apr)
                 [] method = "adjusted_balance" ->
                      calculateAdjustedBalanceInterest(cycle.previousBalance,
                                                       cycle.paymentsReceived, apr)
                 [] OTHER -> calculateADBInterest(adb, apr, daysInCycle)
        charged == IF raw < MinimumInterestCharge THEN MinimumInterestCharge ELSE raw
    IN IF qualifiesForGracePeriod(tbl, cycle, graceFails)
       THEN [averageDailyBalance |-> adb, aprUsed |-> apr,
             waivedDueToGracePeriod |-> TRUE, interestCharge |-> 0]
       ELSE [averageDailyBalance |-> adb, aprUsed |-> apr,
             waivedDueToGracePeriod |-> FALSE, interestCharge |-> charged]

(* InterestService.CalculateInterest.  graceFails is the query of          *)
(* qualifiesForGracePeriod failing.                                        *)
CalculateInterest(card, cycle, tbl, method, runs, graceFails) ==
    LET apr == GetEffectiveAPR(card)
        daysInCycle == cycle.cycleEndDate - cycle.cycleStartDate + 1
        adb == CalculateAverageDailyBalance(runs)
        raw == CASE method = "average_daily_balance" ->
                      calculateADBInterest(adb, apr, daysInCycle)
                 [] method = "daily_balance" ->
                      calculateDailyBalanceInterest(runs, apr)
                 [] method = "adjusted_balance" ->
                      calculateAdjustedBalanceInterest(cycle.previousBalance,
                                                       cycle.paymentsReceived, apr)
                 [] OTHER -> calculateADBInterest(adb, apr, daysInCycle)
        charged == IF raw > 0 /\ raw < MinimumInterestCharge
                   THEN MinimumInterestCharge ELSE raw
    IN IF qualifiesForGracePeriod(tbl, cycle, graceFails)
       THEN [averageDailyBalance |-> adb, aprUsed |-> apr,
             waivedDueToGracePeriod |-> TRUE, interestCharge |-> 0]
       ELSE [averageDailyBalance |-> adb, aprUsed |-> apr,
             waivedDueToGracePeriod |-> FALSE, interestCharge |-> charged]

(* The fee_interest row of AccrueInterest, posted on the cycle's end date. *)
InterestEntry(cycle, cycleId, charge) ==
    [StmtEntry("fee_interest", charge, 0)
        EXCEPT !.statementId = cycleId, !.postingDate = cycle.cycleEndDate]

(* What a billing call leaves in lastCall.                                 *)
BillCall(op, err, cycleId) == [op |-> op, err |-> err, cycleId |-> cycleId]

notBilling == <<payment, transitions, paymentLedger, svc, pointsEntries,
                cashbackEntries, procs>>

(* Time passes: a month later.                                             *)
NextMonth ==
    /\ clock < MaxMonths * DaysPerMonth
    /\ clock' = clock + DaysPerMonth
    /\ UNCHANGED <<stmtEntries, cardRow, cardObj, lastCall, nCalls, cycles,
                   ledgerUpdates>>
    /\ UNCHANGED notBilling

(* BillingService.StartNewBillingCycle.                                    *)
StartNewBillingCycle(failAt) ==
    /\ nCalls < MaxBillingCalls
    /\ Len(cycles) < MaxCycles
    /\ LET previousCycle == getPreviousCycle(cycles)
           previousBalance == IF previousCycle = NoCycle THEN 0
                              ELSE GetRemainingBalance(previousCycle)
           cycleNumber == IF previousCycle = NoCycle THEN 1
                          ELSE previousCycle.cycleNumber + 1
           startDate == IF previousCycle = NoCycle THEN cardObj.createdAt
                        ELSE previousCycle.cycleEndDate + 1
           endDate == startDate + DaysPerMonth - 1
           cycle == NewBillingCycle(cardObj, cycleNumber, startDate, endDate,
                                    previousBalance)
           saveOK == failAt # "save" /\ CycleCheckOK(cycle)
       IN /\ cycles' = IF saveOK THEN saveBillingCycle(cycles, cycle) ELSE cycles
          /\ lastCall' = BillCall("start_cycle",
                                  IF saveOK THEN "none" ELSE "persistence",
                                  IF saveOK THEN NewCycleId(cycles) ELSE 0)
    /\ nCalls' = nCalls + 1
    /\ UNCHANGED <<stmtEntries, cardRow, cardObj, clock, ledgerUpdates>>
    /\ UNCHANGED notBilling

(* The CycleEnd dates a statement is requested for: the ends of the first  *)
(* and of the second month.                                                *)
CycleEnds == {DaysPerMonth - 1, 2 * DaysPerMonth - 1}

(* BillingService.GenerateStatement, with DefaultInterestConfig.  runs is  *)
(* what the daily balance query returns.  The writes, in order: the        *)
(* interest entry, the cycle's row (status open), the card's statement     *)
(* dates, the cycle's status (closed).                                     *)
GenerateStatement(cycleEnd, runs, failAt) ==
    /\ nCalls < MaxBillingCalls
    /\ Len(cycles) < MaxCycles
    /\ LET previousCycle == getPreviousCycle(cycles)
           previousBalance == IF previousCycle = NoCycle THEN 0
                              ELSE previousCycle.newBalance - previousCycle.paymentsMade
           startDate == IF cardObj.lastStatementDate = NoTime THEN cardObj.createdAt
                        ELSE cardObj.lastStatementDate
           cycleNumber == IF previousCycle = NoCycle THEN 1
                          ELSE previousCycle.cycleNumber + 1
           cycleId == NewCycleId(cycles)
           built == populateCycleAmounts(
                        NewBillingCycle(cardObj, cycleNumber, startDate, cycleEnd,
                                        previousBalance),
                        stmtEntries)
           interestResult == CalculateInterest(cardObj, built, cycles,
                                               "average_daily_balance", runs, FALSE)
           charged == ~interestResult.waivedDueToGracePeriod
           accrues == charged /\ interestResult.interestCharge > 0
           entry == InterestEntry(built, cycleId, interestResult.interestCharge)
           accrueOK == ~accrues \/ (failAt # "interest" /\ StatementCheckOK(entry))
           withInterest == IF charged
                           THEN [built EXCEPT !.interestAmount =
                                                 interestResult.interestCharge]
                           ELSE built
           newBalance == CalculateNewBalance(withInterest)
           cycle == [withInterest EXCEPT
                        !.newBalance = newBalance,
                        !.minimumPayment = CalculateMinimumPayment(cardObj, newBalance)]
           saveOK == accrueOK /\ failAt # "save" /\ CycleCheckOK(cycle)
           datesOK == saveOK /\ failAt # "card_dates"
           closeOK == datesOK /\ failAt # "close"
       IN /\ stmtEntries' = IF accrues /\ accrueOK THEN CreateEntry(stmtEntries, entry)
                            ELSE stmtEntries
          /\ cycles' = IF ~saveOK THEN cycles
                       ELSE IF closeOK
                       THEN saveBillingCycle(cycles, [cycle EXCEPT !.status = "closed"])
                       ELSE saveBillingCycle(cycles, cycle)
          /\ cardRow' = IF datesOK THEN [cardRow EXCEPT !.lastStatementDate = cycleEnd]
                        ELSE cardRow
          /\ lastCall' = [op |-> "generate_statement",
                          err |-> IF closeOK THEN "none" ELSE "persistence",
                          cycleId |-> IF saveOK THEN cycleId ELSE 0,
                          cycleEnd |-> cycleEnd,
                          prior |-> previousCycle,
                          interest |-> interestResult]
    /\ nCalls' = nCalls + 1
    /\ UNCHANGED <<cardObj, clock, ledgerUpdates>>
    /\ UNCHANGED notBilling

(* InterestService.CalculateInterest called for the cycle a statement      *)
(* would be generated for, with the method of the caller's InterestConfig. *)
(* It reads only.                                                          *)
Interest_CalculateInterest(cycleEnd, method, runs) ==
    /\ nCalls < MaxBillingCalls
    /\ LET previousCycle == getPreviousCycle(cycles)
           previousBalance == IF previousCycle = NoCycle THEN 0
                              ELSE previousCycle.newBalance - previousCycle.paymentsMade
           startDate == IF cardObj.lastStatementDate = NoTime THEN cardObj.createdAt
                        ELSE cardObj.lastStatementDate
           cycleNumber == IF previousCycle = NoCycle THEN 1
                          ELSE previousCycle.cycleNumber + 1
           built == populateCycleAmounts(
                        NewBillingCycle(cardObj, cycleNumber, startDate, cycleEnd,
                                        previousBalance),
                        stmtEntries)
       IN lastCall' = [op |-> "calculate_interest", err |-> "none", cycleId |-> 0,
                       cycleEnd |-> cycleEnd, prior |-> previousCycle,
                       interest |-> CalculateInterest(cardObj, built, cycles,
                                                      method, runs, FALSE)]
    /\ nCalls' = nCalls + 1
    /\ UNCHANGED <<stmtEntries, cardRow, cardObj, clock, cycles, ledgerUpdates>>
    /\ UNCHANGED notBilling

(* The amounts paid towards a cycle: $10, $40 and $2,000.                  *)
CyclePayments == {1000, 4000, 200000}

(* A variant that calls a cycle paid in full only when more than its       *)
(* balance was paid.                                                       *)
ApplyPayment_MoreThanBalance(cycle, paymentAmount) ==
    LET newPaymentsMade == cycle.paymentsMade + paymentAmount
        minimumPaymentMet == newPaymentsMade >= cycle.minimumPayment
    IN [cycle EXCEPT !.paymentsMade = newPaymentsMade,
                     !.lastPaymentAmount = paymentAmount,
                     !.minimumPaymentMet = minimumPaymentMet,
                     !.status = IF newPaymentsMade > cycle.newBalance THEN "paid_full"
                                ELSE IF minimumPaymentMet THEN "paid"
                                ELSE cycle.status]

(* ProcessPaymentTowardsBillingCycle: the row its UPDATE writes.           *)
ApplyPayment(cycle, paymentAmount) ==
    LET newPaymentsMade == cycle.paymentsMade + paymentAmount
        minimumPaymentMet == newPaymentsMade >= cycle.minimumPayment
        newStatus == IF newPaymentsMade >= cycle.newBalance THEN "paid_full"
                     ELSE IF minimumPaymentMet THEN "paid"
                     ELSE cycle.status
    IN [cycle EXCEPT !.paymentsMade = newPaymentsMade,
                     !.lastPaymentAmount = paymentAmount,
                     !.minimumPaymentMet = minimumPaymentMet,
                     !.status = newStatus]

(* BillingService.ProcessPaymentTowardsBillingCycle.  cycleID 0 is an id   *)
(* no cycle has.                                                           *)
ProcessPaymentTowardsBillingCycle(cycleID, paymentAmount, failAt) ==
    /\ nCalls < MaxBillingCalls
    /\ IF cycleID \notin 1..Len(cycles)
       THEN /\ lastCall' = [op |-> "cycle_payment", err |-> "not_found",
                            cycleId |-> cycleID, amount |-> paymentAmount]
            /\ UNCHANGED cycles
       ELSE /\ cycles' = IF failAt = "update" THEN cycles
                         ELSE [cycles EXCEPT
                                 ![cycleID] = ApplyPayment(cycles[cycleID], paymentAmount)]
            /\ lastCall' = [op |-> "cycle_payment",
                            err |-> IF failAt = "update" THEN "persistence" ELSE "none",
                            cycleId |-> cycleID, amount |-> paymentAmount]
    /\ nCalls' = nCalls + 1
    /\ UNCHANGED <<stmtEntries, cardRow, cardObj, clock, ledgerUpdates>>
    /\ UNCHANGED notBilling

(* A hasExistingFee that never finds a fee.                                *)
hasExistingFee_Never(tbl, cycleID, feeType) == FALSE

(* FeeService.hasExistingFee.                                              *)
hasExistingFee(tbl, cycleID, feeType) ==
    \E i \in 1..Len(tbl) :
        /\ tbl[i].statementId = cycleID
        /\ tbl[i].etype = feeType
        /\ tbl[i].status # "reversed"

(* The fee_late row of AssessLatePaymentFee.                               *)
LateFeeEntry(card, cycle) ==
    [StmtEntry("fee_late", card.latePaymentFee, 0) EXCEPT !.statementId = cycle.id]

(* FeeService.AssessLatePaymentFee: nothing to assess unless the cycle is  *)
(* overdue, its minimum payment is not met and no late fee exists for it.  *)
AssessLatePaymentFee(tbl, card, cycle, currentDate, dbFails) ==
    IF \/ ~IsOverdue(cycle, currentDate)
       \/ cycle.minimumPaymentMet
       \/ hasExistingFee(tbl, cycle.id, "fee_late")
    THEN [err |-> "none", assessed |-> FALSE, tbl |-> tbl]
    ELSE IF dbFails \/ ~StatementCheckOK(LateFeeEntry(card, cycle))
    THEN [err |-> "persistence", assessed |-> FALSE, tbl |-> tbl]
    ELSE [err |-> "none", assessed |-> TRUE,
          tbl |-> CreateEntry(tbl, LateFeeEntry(card, cycle))]

(* A caller of the fee service assesses the late fee of one cycle, with    *)
(* the cycle's row as stored and today's date.                             *)
Fee_AssessLatePaymentFee(cycleID, dbFails) ==
    /\ nCalls < MaxBillingCalls
    /\ cycleID \in 1..Len(cycles)
    /\ LET r == AssessLatePaymentFee(stmtEntries, cardObj, cycles[cycleID], clock,
                                     dbFails)
       IN /\ stmtEntries' = r.tbl
          /\ lastCall' = [op |-> "assess_late_fee", err |-> r.err,
                          cycleId |-> cycleID, assessed |-> r.assessed]
    /\ nCalls' = nCalls + 1
    /\ UNCHANGED <<cardRow, cardObj, clock, cycles, ledgerUpdates>>
    /\ UNCHANGED notBilling

(* The cycles the query of CheckAndAssessLatePaymentFees selects.          *)
OverdueCycleIds(cyc, tbl, currentDate) ==
    {i \in 1..Len(cyc) :
        /\ cyc[i].status = "closed"
        /\ ~cyc[i].minimumPaymentMet
        /\ cyc[i].dueDate < currentDate
        /\ ~\E j \in 1..Len(tbl) :
              /\ tbl[j].statementId = cyc[i].id
              /\ tbl[j].etype = "fee_late"
              /\ tbl[j].status # "reversed"}

(* The loop of CheckAndAssessLatePaymentFees over the selected cycles from *)
(* id `from` on: assess the fee and, if one was assessed, mark the cycle   *)
(* past_due and count the late payment on the card.                        *)
RECURSIVE AssessSelected(_, _, _)
AssessSelected(from, selected, st) ==
    IF from > Len(st.cycles) THEN st
    ELSE IF from \notin selected THEN AssessSelected(from + 1, selected, st)
    ELSE LET r == AssessLatePaymentFee(st.stmt, st.card, st.cycles[from], st.now,
                                       st.dbFails)
         IN AssessSelected(from + 1, selected,
              IF r.assessed
              THEN [st EXCEPT !.stmt = r.tbl,
                              !.cycles[from].status = "past_due",
                              !.card.consecutiveLateCount = @ + 1,
                              !.assessed = @ \cup {from}]
              ELSE st)

(* BillingService.CheckAndAssessLatePaymentFees.                           *)
CheckAndAssessLatePaymentFees(dbFails) ==
    /\ nCalls < MaxBillingCalls
    /\ LET st == AssessSelected(1, OverdueCycleIds(cycles, stmtEntries, clock),
                    [stmt |-> stmtEntries, cycles |-> cycles, card |-> cardRow,
                     now |-> clock, dbFails |-> dbFails, assessed |-> {}])
       IN /\ stmtEntries' = st.stmt
          /\ cycles' = st.cycles
          /\ cardRow' = st.card
          /\ lastCall' = [op |-> "check_late_fees", err |-> "none", cycleId |-> 0,
                          assessed |-> st.assessed]
    /\ nCalls' = nCalls + 1
    /\ UNCHANGED <<cardObj, clock, ledgerUpdates>>
    /\ UNCHANGED notBilling

(* StatementEntryType: every type of statement ledger entry.               *)
StatementEntryTypes ==
    {"transaction", "payment", "refund", "reward", "returned_reward", "fee_late",
     "fee_failed", "fee_international", "fee_interest", "fee_over_limit",
     "fee_annual", "fee_cash_advance", "cash_advance", "cashback_earned",
     "cashback_redeemed", "adjustment", "credit"}

(* The amounts entries are recorded with: $25, and for an adjustment also  *)
(* a negative one, -$15.                                                   *)
EntryAmounts(etype) == IF etype = "adjustment" THEN {2500, -1500} ELSE {2500}

(* The view statement_balances: what a cleared entry adds to               *)
(* current_balance.                                                        *)
ViewContribution(e) ==
    CASE e.etype \in {"transaction", "fee_late", "fee_failed", "fee_international"}
            -> e.amount
      [] e.etype \in {"payment", "refund", "reward", "credit"} -> -e.amount
      [] e.etype = "returned_reward" -> e.amount
      [] e.etype = "adjustment" -> e.amount
      [] OTHER -> 0

(* current_balance of statement_balances: the sum over the cleared rows.   *)
RECURSIVE ViewBalance(_)
ViewBalance(tbl) ==
    IF tbl = <<>> THEN 0
    ELSE (IF Head(tbl).status = "cleared" THEN ViewContribution(Head(tbl)) ELSE 0)
         + ViewBalance(Tail(tbl))

(* StatementLedgerService.CalculateStatementBalance over a period.         *)
RECURSIVE CalculateStatementBalance(_, _, _, _)
CalculateStatementBalance(tbl, startDate, endDate, openingBalance) ==
    IF tbl = <<>> THEN openingBalance
    ELSE LET e == Head(tbl)
             inPeriod == /\ e.postingDate >= startDate
                         /\ e.postingDate <= endDate
                         /\ e.status = "cleared"
             v == CASE e.etype \in {"transaction", "fee_late", "fee_failed",
                                    "fee_international", "returned_reward"}
                          -> e.amount
                    [] e.etype \in {"payment", "refund", "reward", "credit"}
                          -> -e.amount
                    [] e.etype = "adjustment" -> e.amount
                    [] OTHER -> 0
         IN (IF inPeriod THEN v ELSE 0)
            + CalculateStatementBalance(Tail(tbl), startDate, endDate, openingBalance)

(* StatementLedgerService.ClearEntry: UPDATE ... SET status = 'cleared'    *)
(* WHERE id = entryID AND status = 'pending'.  The trigger                 *)
(* prevent_statement_entry_update of the first migration refuses the       *)
(* UPDATE of any row; refused is that trigger being in force.              *)
ClearEntry(entryID, refused) ==
    /\ nCalls < MaxBillingCalls
    /\ ledgerUpdates' = ledgerUpdates + 1
    /\ LET matches == /\ entryID \in 1..Len(stmtEntries)
                      /\ stmtEntries[entryID].status = "pending"
       IN /\ stmtEntries' = IF matches /\ ~refused
                            THEN [stmtEntries EXCEPT ![entryID].status = "cleared"]
                            ELSE stmtEntries
          /\ lastCall' = [op |-> "clear_entry",
                          err |-> IF ~matches THEN "not_found"
                                  ELSE IF refused THEN "immutable" ELSE "none",
                          entryId |-> entryID]
    /\ nCalls' = nCalls + 1
    /\ UNCHANGED <<cardRow, cardObj, clock, cycles>>
    /\ UNCHANGED notBilling

(* A caller of StatementLedgerService.CreateEntry records an entry of any  *)
(* type: the row is inserted as the caller built it (status pending).      *)
Ledger_CreateEntry(etype, amount, dbFails) ==
    /\ nCalls < MaxBillingCalls
    /\ Len(stmtEntries) < MaxEntries
    /\ LET e == StmtEntry(etype, amount, 0)
           ok == ~dbFails /\ StatementCheckOK(e)
       IN /\ stmtEntries' = IF ok THEN CreateEntry(stmtEntries, e) ELSE stmtEntries
          /\ lastCall' = [op |-> "create_entry",
                          err |-> IF ok THEN "none" ELSE "persistence",
                          entryId |-> IF ok THEN NewStatementId(stmtEntries) ELSE 0]
    /\ nCalls' = nCalls + 1
    /\ UNCHANGED <<cardRow, cardObj, clock, cycles, ledgerUpdates>>
    /\ UNCHANGED notBilling

(* The purchase the billing runs record: $2,000.                           *)
BillingPurchase == 200000

(* The daily balances the billing runs are handed: a month at $100.        *)
MonthAtHundred == <<[balance |-> 10000, days |-> 30]>>

(* One card from its creation on: purchases, the billing service, the late *)
(* fee and the passing of months.                                          *)
NextBilling ==
    \/ NextMonth
    \/ GetCreditCard
    \/ Recon_RecordTransaction(BillingPurchase, FALSE, "none")
    \/ \E f \in {"none", "save"} : StartNewBillingCycle(f)
    \/ \E e \in CycleEnds, f \in {"none", "save", "card_dates", "close"} :
          GenerateStatement(e, MonthAtHundred, f)
    \/ \E c \in 0..Len(cycles), a \in CyclePayments, f \in {"none", "update"} :
          ProcessPaymentTowardsBillingCycle(c, a, f)
    \/ \E c \in 1..Len(cycles), d \in BOOLEAN : Fee_AssessLatePaymentFee(c, d)
    \/ \E d \in BOOLEAN : CheckAndAssessLatePaymentFees(d)

SpecBilling == InitLedger /\ [][NextBilling]_vars

(* The card a month after its creation, as the billing service leaves it   *)
(* when a purchase of $2,000 was recorded on the first day and the first   *)
(* statement was generated for the end of the first month: one closed      *)
(* cycle, the card's statement date set and reloaded.                      *)
InitSecondMonth ==
    /\ payment = IdlePayment
    /\ transitions = <<>>
    /\ paymentLedger = <<>>
    /\ svc = [ledgerService |-> TRUE, feeService |-> TRUE]
    /\ clock = DaysPerMonth
    /\ stmtEntries = CreateEntry(<<>>, [StmtEntry("transaction", BillingPurchase, 0)
                                           EXCEPT !.postingDate = CardConfig.createdAt])
    /\ pointsEntries = <<>>
    /\ cashbackEntries = <<>>
    /\ cardRow = [CardConfig EXCEPT !.lastStatementDate = DaysPerMonth - 1]
    /\ cardObj = cardRow
    /\ procs = <<>>
    /\ lastCall = NoCall
    /\ nCalls = 0
    /\ cycles = LET built == populateCycleAmounts(
                                 NewBillingCycle(CardConfig, 1, CardConfig.createdAt,
                                                 DaysPerMonth - 1, 0),
                                 stmtEntries)
                    newBalance == CalculateNewBalance(built)
                IN saveBillingCycle(<<>>,
                       [built EXCEPT
                           !.newBalance = newBalance,
                           !.minimumPayment = CalculateMinimumPayment(CardConfig,
                                                                      newBalance),
                           !.status = "closed"])
    /\ ledgerUpdates = 0

(* The second month of the card: payments are recorded in the ledger and   *)
(* applied to the closed cycle, purchases go on, and the next statement is *)
(* generated.                                                              *)
NextSecondMonth ==
    \/ NextMonth
    \/ GetCreditCard
    \/ Recon_RecordTransaction(BillingPurchase, FALSE, "none")
    \/ \E a \in {4000, 200000} : Recon_RecordPayment(a, "none")
    \/ \E c \in 1..Len(cycles), a \in {4000, 200000} :
          ProcessPaymentTowardsBillingCycle(c, a, "none")
    \/ \E e \in CycleEnds : GenerateStatement(e, MonthAtHundred, "none")

SpecSecondMonth == InitSecondMonth /\ [][NextSecondMonth]_vars

(* Two callers of FeeService.AssessLatePaymentFee for the same cycle, each *)
(* a goroutine with its own request; the statements of the method are      *)
(* separate steps and the store runs each of them on its own.              *)
(* Step 1: the checks of IsOverdue and MinimumPaymentMet and the query of  *)
(* hasExistingFee.                                                         *)
LateFee_Check(p) ==
    /\ procs[p].pc = "check"
    /\ procs' = IF \/ ~IsOverdue(cycles[1], procs[p].currentDate)
                   \/ cycles[1].minimumPaymentMet
                   \/ hasExistingFee(stmtEntries, cycles[1].id, "fee_late")
                THEN SetPc(p, "done", "none")
                ELSE SetPc(p, "insert", "none")
    /\ UNCHANGED <<stmtEntries, pointsEntries>>
    /\ UNCHANGED concFrame

(* Step 2: CreateEntry inserts the fee_late row and the call returns.      *)
LateFee_Insert(p, dbFails) ==
    /\ procs[p].pc = "insert"
    /\ LET e == LateFeeEntry(cardObj, cycles[1])
       IN IF ~dbFails /\ StatementCheckOK(e)
          THEN /\ stmtEntries' = CreateEntry(stmtEntries, e)
               /\ procs' = SetPc(p, "assessed", "none")
          ELSE /\ procs' = SetPc(p, "done", "persistence")
               /\ UNCHANGED stmtEntries
    /\ UNCHANGED pointsEntries
    /\ UNCHANGED concFrame

(* The card two months after its creation with the closed cycle of its     *)
(* first statement (a purchase of $2,000, due on day 54), towards which    *)
(* nothing, $10 or the minimum of $40 was paid; each caller asks with the  *)
(* date of today, of yesterday or of a month ago.                          *)
InitLateFee ==
    /\ payment = IdlePayment
    /\ transitions = <<>>
    /\ paymentLedger = <<>>
    /\ svc = [ledgerService |-> TRUE, feeService |-> TRUE]
    /\ clock = 2 * DaysPerMonth
    /\ stmtEntries = CreateEntry(<<>>, [StmtEntry("transaction", BillingPurchase, 0)
                                           EXCEPT !.postingDate = CardConfig.createdAt])
    /\ pointsEntries = <<>>
    /\ cashbackEntries = <<>>
    /\ cardRow = [CardConfig EXCEPT !.lastStatementDate = DaysPerMonth - 1]
    /\ cardObj = cardRow
    /\ procs \in [Procs -> [pc : {"check"}, err : {"none"},
                            currentDate : {DaysPerMonth, 2 * DaysPerMonth - 1,
                                           2 * DaysPerMonth}]]
    /\ lastCall = NoCall
    /\ nCalls = 0
    /\ \E paid \in {0, 1000, 4000} :
          cycles = LET built == populateCycleAmounts(
                                    NewBillingCycle(CardConfig, 1, CardConfig.createdAt,
                                                    DaysPerMonth - 1, 0),
                                    stmtEntries)
                       newBalance == CalculateNewBalance(built)
                       closed == [built EXCEPT
                                     !.id = 1,
                                     !.newBalance = newBalance,
                                     !.minimumPayment =
                                         CalculateMinimumPayment(CardConfig, newBalance),
                                     !.status = "closed"]
                   IN <<IF paid = 0 THEN closed ELSE ApplyPayment(closed, paid)>>
    /\ ledgerUpdates = 0

NextLateFee ==
    \E p \in Procs :
        \/ LateFee_Check(p)
        \/ \E d \in BOOLEAN : LateFee_Insert(p, d)

SpecLateFee == InitLateFee /\ [][NextLateFee]_vars

(* Interest over the cycles of one card: purchases, payments towards a     *)
(* cycle, statements and interest calculations with every method and every *)
(* run of daily balances.                                                  *)
NextInterest ==
    \/ NextMonth
    \/ GetCreditCard
    \/ Recon_RecordTransaction(BillingPurchase, FALSE, "none")
    \/ \E e \in CycleEnds, runs \in DailyBalanceRuns, f \in {"none", "interest"} :
          GenerateStatement(e, runs, f)
    \/ \E e \in CycleEnds, m \in InterestMethods, runs \in DailyBalanceRuns :
          Interest_CalculateInterest(e, m, runs)
    \/ \E c \in 1..Len(cycles), a \in CyclePayments :
          ProcessPaymentTowardsBillingCycle(c, a, "none")

SpecInterest == InitLedger /\ [][NextInterest]_vars

(* The statement ledger on its own: entries of every type are recorded and *)
(* cleared.                                                                *)
NextProjection ==
    \/ \E t \in StatementEntryTypes, d \in BOOLEAN :
          \E a \in EntryAmounts(t) : Ledger_CreateEntry(t, a, d)
    \/ \E i \in 0..Len(stmtEntries), r \in BOOLEAN : ClearEntry(i, r)

SpecProjection == InitLedger /\ [][NextProjection]_vars

(* An AssessOverLimitFee that charges a balance at the limit.              *)
AssessOverLimitFee_AtLimit(tbl, card, currentBalance, dbFails) ==
    IF currentBalance < card.creditLimit \/ card.overLimitFee <= 0
    THEN [err |-> "none", assessed |-> FALSE, tbl |-> tbl]
    ELSE LET entry == StmtEntry("fee_over_limit", card.overLimitFee, 0)
         IN IF dbFails \/ ~StatementCheckOK(entry)
            THEN [err |-> "persistence", assessed |-> FALSE, tbl |-> tbl]
            ELSE [err |-> "none", assessed |-> TRUE, tbl |-> CreateEntry(tbl, entry)]

(* FeeService.AssessOverLimitFee: nothing to assess unless the balance of  *)
(* the request is over the credit limit and the card has an over-limit     *)
(* fee.                                                                    *)
AssessOverLimitFee(tbl, card, currentBalance, dbFails) ==
    IF currentBalance <= card.creditLimit \/ card.overLimitFee <= 0
    THEN [err |-> "none", assessed |-> FALSE, tbl |-> tbl]
    ELSE LET entry == StmtEntry("fee_over_limit", card.overLimitFee, 0)
         IN IF dbFails \/ ~StatementCheckOK(entry)
            THEN [err |-> "persistence", assessed |-> FALSE, tbl |-> tbl]
            ELSE [err |-> "none", assessed |-> TRUE, tbl |-> CreateEntry(tbl, entry)]

(* A caller of the fee service assesses the over-limit fee for a card      *)
(* whose configured fee is `fee` and a balance it has read.                *)
Fee_AssessOverLimitFee(fee, currentBalance, dbFails) ==
    /\ nCalls < MaxBillingCalls
    /\ LET r == AssessOverLimitFee(stmtEntries, [cardObj EXCEPT !.overLimitFee = fee],
                                   currentBalance, dbFails)
       IN /\ stmtEntries' = r.tbl
          /\ lastCall' = [op |-> "assess_over_limit_fee", err |-> r.err,
                          fee |-> fee, balance |-> currentBalance,
                          assessed |-> r.assessed]
    /\ nCalls' = nCalls + 1
    /\ UNCHANGED <<cardRow, cardObj, clock, cycles, ledgerUpdates>>
    /\ UNCHANGED notBilling

(* AssessAnnualFee looks for an annual fee "within 11 months".             *)
AnnualFeeLookbackMonths == 11

(* FeeService.hasRecentAnnualFee: a fee_annual row, not reversed, whose    *)
(* posting date is not older than NOW() less the given months.             *)
hasRecentAnnualFee(tbl, now, withinMonths) ==
    \E i \in 1..Len(tbl) :
        /\ tbl[i].etype = "fee_annual"
        /\ tbl[i].status # "reversed"
        /\ tbl[i].postingDate >= now - withinMonths * DaysPerMonth

(* FeeService.AssessAnnualFee: nothing to assess for a card without an     *)
(* annual fee or with a recent annual fee.  Entry and posting date of the  *)
(* fee_annual row are the anniversary date of the request.                 *)
AssessAnnualFee(tbl, card, anniversaryDate, now, dbFails) ==
    IF card.annualFee <= 0 \/ hasRecentAnnualFee(tbl, now, AnnualFeeLookbackMonths)
    THEN [err |-> "none", assessed |-> FALSE, tbl |-> tbl]
    ELSE LET entry == [StmtEntry("fee_annual", card.annualFee, 0)
                          EXCEPT !.postingDate = anniversaryDate]
         IN IF dbFails \/ ~StatementCheckOK(entry)
            THEN [err |-> "persistence", assessed |-> FALSE, tbl |-> tbl]
            ELSE [err |-> "none", assessed |-> TRUE, tbl |-> CreateEntry(tbl, entry)]

(* A caller of the fee service assesses the annual fee for a card whose    *)
(* annual fee is `fee`, with an anniversary date of its choice.            *)
Fee_AssessAnnualFee(fee, anniversaryDate, dbFails) ==
    /\ nCalls < MaxBillingCalls
    /\ LET r == AssessAnnualFee(stmtEntries, [cardObj EXCEPT !.annualFee = fee],
                                anniversaryDate, clock, dbFails)
       IN /\ stmtEntries' = r.tbl
          /\ lastCall' = [op |-> "assess_annual_fee", err |-> r.err, fee |-> fee,
                          anniversaryDate |-> anniversaryDate,
                          assessed |-> r.assessed]
    /\ nCalls' = nCalls + 1
    /\ UNCHANGED <<cardRow, cardObj, clock, cycles, ledgerUpdates>>
    /\ UNCHANGED notBilling

(* Fee assessments over the statements of one card.  The card has no      *)
(* over-limit fee or one of $35, no annual fee or one of $95; the balance  *)
(* an over-limit assessment is asked about is under, at or over the        *)
(* card's limit; the anniversary date of an annual fee is today or the     *)
(* anniversary a year ago.                                                 *)
NextFees ==
    \/ NextMonth
    \/ \E e \in CycleEnds : GenerateStatement(e, MonthAtHundred, "none")
    \/ \E c \in 1..Len(cycles), a \in CyclePayments :
          ProcessPaymentTowardsBillingCycle(c, a, "none")
    \/ \E c \in 1..Len(cycles), d \in BOOLEAN : Fee_AssessLatePaymentFee(c, d)
    \/ \E f \in {0, 3500}, d \in BOOLEAN,
          b \in {cardObj.creditLimit - 100, cardObj.creditLimit,
                 cardObj.creditLimit + 100} :
          Fee_AssessOverLimitFee(f, b, d)
    \/ \E f \in {0, 9500}, a \in {clock, clock - 12 * DaysPerMonth}, d \in BOOLEAN :
          Fee_AssessAnnualFee(f, a, d)

SpecFees == InitLedger /\ [][NextFees]_vars

(* Purchases recorded in both ledgers under the default points rule: the  *)
(* purchases of the README's points example, in cents ($0.50, $1.00 and    *)
(* $100).                                                                  *)
NextPoints ==
    \E a \in {50, 100, 10000}, ep \in BOOLEAN,
       f \in {"none", "statement", "points", "commit"} :
        Recon_RecordTransaction(a, ep, f)

SpecPoints == InitLedger /\ [][NextPoints]_vars

(* The period totals CalculateNewBalance is applied to, in cents: each     *)
(* total is nothing or the amount of the "complex scenario" of             *)
(* TestBillingCycleCalculateNewBalance, the adjustments are -$10 or $10.   *)
CalcCycles ==
    {[NewBillingCycle(CardConfig, 1, 0, DaysPerMonth - 1, pb) EXCEPT
         !.paymentsReceived = pay, !.purchasesAmount = pur,
         !.cashAdvancesAmount = ca, !.refundsAmount = ref, !.feesAmount = fee,
         !.interestAmount = int, !.adjustmentsAmount = adj,
         !.cashbackRedeemed = cb] :
        pb \in {0, 100000}, pay \in {0, 20000}, pur \in {0, 50000},
        ca \in {0, 10000}, ref \in {0, 5000}, fee \in {0, 3500},
        int \in {0, 1500}, adj \in {-1000, 1000}, cb \in {0, 2500}}

(* A cycle's totals, a statement balance, the daily balances of a cycle,   *)
(* an interest method and a card are given.  The balances, in cents, are   *)
(* those of TestCreditCardCalculateMinimumPayment and $1,000, $25, $24:    *)
(* the percentage of each is a whole number of cents, as the code does     *)
(* not round it.  The card asks for 2% or 3%, at least $25, and has a      *)
(* purchase APR of 18.25% or 19.99%.  The daily balances are the runs of   *)
(* DailyBalanceRuns and, under the average daily balance method, a month   *)
(* at $1,100, at $10 and at $0.10, and half a month at $69.99 followed by  *)
(* half a month at nothing; they belong to a cycle of 30 days with a       *)
(* previous balance of $1,000.                                             *)
InitCalc ==
    /\ payment = IdlePayment
    /\ transitions = <<>>
    /\ paymentLedger = <<>>
    /\ svc = [ledgerService |-> TRUE, feeService |-> TRUE]
    /\ clock = 0
    /\ stmtEntries = <<>>
    /\ pointsEntries = <<>>
    /\ cashbackEntries = <<>>
    /\ cardObj \in {[CardConfig EXCEPT !.minimumPaymentPercent = pct,
                                       !.purchaseAPR = apr] :
                      pct \in {200, 300}, apr \in {1825, 1999}}
    /\ cardRow = cardObj
    /\ procs = <<>>
    /\ lastCall \in
          {[op |-> "none", err |-> "none", cycle |-> c, balance |-> b,
            runs |-> <<>>, method |-> "average_daily_balance"] :
              c \in CalcCycles,
              b \in {-10000, 0, 1500, 2400, 2500, 50000, 100000, 500000}}
          \cup
          {[op |-> "none", err |-> "none",
            cycle |-> NewBillingCycle(CardConfig, 2, 0, DaysPerMonth - 1, 100000),
            balance |-> 0, runs |-> r, method |-> m] :
              r \in DailyBalanceRuns, m \in InterestMethods}
          \cup
          {[op |-> "none", err |-> "none",
            cycle |-> NewBillingCycle(CardConfig, 2, 0, DaysPerMonth - 1, 100000),
            balance |-> 0, runs |-> r, method |-> "average_daily_balance"] :
              r \in {<<[balance |-> 110000, days |-> 30]>>,
                     <<[balance |-> 1000, days |-> 30]>>,
                     <<[balance |-> 10, days |-> 30]>>,
                     <<[balance |-> 6999, days |-> 15], [balance |-> 0, days |-> 15]>>}}
    /\ nCalls = 0
    /\ cycles = <<>>
    /\ ledgerUpdates = 0

(* BillingCycle.CalculateNewBalance applied to the cycle.                  *)
Calc_CalculateNewBalance ==
    /\ nCalls = 0
    /\ lastCall' = [op |-> "calculate_new_balance", err |-> "none",
                    cycle |-> lastCall.cycle, balance |-> lastCall.balance,
                    runs |-> lastCall.runs, method |-> lastCall.method,
                    result |-> CalculateNewBalance(lastCall.cycle)]
    /\ nCalls' = 1
    /\ UNCHANGED <<payment, transitions, paymentLedger, svc, clock, stmtEntries,
                   pointsEntries, cashbackEntries, cardRow, cardObj, procs, cycles,
                   ledgerUpdates>>

(* CreditCard.CalculateMinimumPayment applied to the statement balance.    *)
Calc_CalculateMinimumPayment ==
    /\ nCalls = 0
    /\ lastCall' = [op |-> "calculate_minimum_payment", err |-> "none",
                    cycle |-> lastCall.cycle, balance |-> lastCall.balance,
                    runs |-> lastCall.runs, method |-> lastCall.method,
                    result |-> CalculateMinimumPayment(cardObj, lastCall.balance)]
    /\ nCalls' = 1
    /\ UNCHANGED <<payment, transitions, paymentLedger, svc, clock, stmtEntries,
                   pointsEntries, cashbackEntries, cardRow, cardObj, procs, cycles,
                   ledgerUpdates>>

(* InterestService.CalculateInterest applied to the cycle and its daily    *)
(* balances; the account has no earlier cycle, and the query of the grace  *)
(* period succeeds or fails.                                               *)
Calc_CalculateInterest(graceFails) ==
    /\ nCalls = 0
    /\ lastCall' = [op |-> "calculate_interest", err |-> "none",
                    cycle |-> lastCall.cycle, balance |-> lastCall.balance,
                    runs |-> lastCall.runs, method |-> lastCall.method,
                    result |-> CalculateInterest(cardObj, lastCall.cycle, cycles,
                                                 lastCall.method, lastCall.runs,
                                                 graceFails)]
    /\ nCalls' = 1
    /\ UNCHANGED <<payment, transitions, paymentLedger, svc, clock, stmtEntries,
                   pointsEntries, cashbackEntries, cardRow, cardObj, procs, cycles,
                   ledgerUpdates>>

NextCalc ==
    \/ Calc_CalculateNewBalance
    \/ Calc_CalculateMinimumPayment
    \/ \E graceFails \in BOOLEAN : Calc_CalculateInterest(graceFails)

(* The pure calculations of the models, each applied once to its inputs.   *)
SpecCalc == InitCalc /\ [][NextCalc]_vars

(* Requests with amounts and points of every sign: -$25, nothing, $25;     *)
(* -5, 0 and 5 points.  A purchase may also be of $0.10, and abroad.       *)
AnyAmounts == {-2500, 0, 2500}


(* The services called with whatever amount the caller passes: purchases,  *)
(* payments, refunds and redemptions, and fee entries appended to the      *)
(* statement ledger.                                                       *)
NextAmounts ==
    \/ \E a \in AnyAmounts \cup {10}, intl \in BOOLEAN :
          CC_RecordTransaction(a, intl, "none")
    \/ \E a \in AnyAmounts : CC_RecordPayment(a, "none")
    \/ \E a \in AnyAmounts : CC_RecordRefund(a, 0, "none")
    \/ \E a \in AnyAmounts : Recon_RecordTransaction(a, TRUE, "none")
    \/ \E a \in AnyAmounts : Recon_RecordPayment(a, "none")
    \/ \E a \in AnyAmounts : Recon_RecordRefund(a, 0, FALSE, "none")
    \/ \E p \in {-5, 0, 5}, a \in AnyAmounts : Recon_RecordRewardRedemption(p, a, "none")
    \/ \E p \in {-5, 0, 5} : Points_RecordRedemption(p, "none")
    \/ \E a \in AnyAmounts : RedeemCashback(a, "statement_credit", "none")
    \/ \E t \in FeeTypes, a \in AnyAmounts : Ledger_CreateEntry(t, a, FALSE)

SpecAmounts == InitLedger /\ [][NextAmounts]_vars

-----------------------------------------------------------------------------
(* Properties of the payment state machine (checked under SpecPayment).    *)

(* The status changes the specification allows.                            *)
AllowedChanges ==
    {<<"pending", "processing">>, <<"pending", "cancelled">>,
     <<"processing", "cleared">>, <<"processing", "failed">>,
     <<"processing", "cancelled">>,
     <<"cleared", "returned">>, <<"cleared", "reversed">>,
     <<"failed", "pending">>}

PaymentOps == {"process", "clear", "fail", "return", "cancel", "reverse", "retry"}

(* The status each operation asks for.                                     *)
RequestedStatus(op) ==
    CASE op = "process" -> "processing"
      [] op = "clear"   -> "cleared"
      [] op = "fail"    -> "failed"
      [] op = "return"  -> "returned"
      [] op = "cancel"  -> "cancelled"
      [] op = "reverse" -> "reversed"
      [] op = "retry"   -> "pending"

LastTransition == transitions[Len(transitions)]

(* C1: every status change a payment has undergone is one of the eight     *)
(* allowed changes (the audit trail is the payment's real history), and a  *)
(* request for any other change, in particular any request on a returned,  *)
(* cancelled or reversed payment, returns an error and leaves the status   *)
(* as it was.                                                              *)
C1_OnlyAllowedTransitions ==
    /\ \A i \in 1..Len(transitions) :
          <<transitions[i].from, transitions[i].to>> \in AllowedChanges
    /\ payment.status = IF transitions = <<>> THEN "pending" ELSE LastTransition.to
    /\ \A i \in 1..Len(transitions) :
          transitions[i].from = IF i = 1 THEN "pending" ELSE transitions[i - 1].to
    /\ (lastCall.op \in PaymentOps
          /\ <<lastCall.from, RequestedStatus(lastCall.op)>> \notin AllowedChanges)
       => (lastCall.err # "none" /\ payment.status = lastCall.from)

(* A cleared payment was asked to go back to pending and the request was   *)
(* refused.                                                                *)
C1_Witness ==
    /\ lastCall.op = "retry"
    /\ lastCall.from = "cleared"
    /\ lastCall.err # "none"
    /\ Len(transitions) = 2

(* C7: a retry requested on a failed payment whose attemptCount has        *)
(* reached maxRetries (maxRetries = 0 included), or on a payment that is   *)
(* not failed, is refused and changes nothing; every change to pending is  *)
(* a retry of a failed payment.                                            *)
C7_RetryGate ==
    /\ (lastCall.op = "retry"
          /\ (lastCall.from # "failed" \/ lastCall.attempts >= payment.maxRetries))
       => /\ lastCall.err # "none"
          /\ payment.status = lastCall.from
          /\ payment.attemptCount = lastCall.attempts
    /\ \A i \in 1..Len(transitions) :
          transitions[i].to = "pending" => transitions[i].from = "failed"
    /\ (payment.status = "pending" /\ transitions # <<>>)
       => payment.attemptCount < payment.maxRetries

(* A payment that was retried before has used up its retries and the next  *)
(* retry is refused.                                                       *)
C7_Witness ==
    /\ lastCall.op = "retry"
    /\ lastCall.from = "failed"
    /\ lastCall.attempts >= payment.maxRetries
    /\ lastCall.err # "none"
    /\ \E i \in 1..Len(transitions) : transitions[i].to = "pending"

(* C8 (as claimed): the entry written when a cleared payment of applied    *)
(* amount A is returned or reversed is a charge of A, so the entries of    *)
(* the payment cancel out.                                                 *)
C8_ReversalIsChargeOfA ==
    (lastCall.op \in {"return", "reverse"} /\ lastCall.err = "none" /\ svc.ledgerService)
    => /\ GetSignedAmount(lastCall.entry) = payment.appliedAmount
       /\ SignedSum(paymentLedger) = 0

(* C9 (as claimed): the step that takes a payment to returned adds exactly *)
(* one fee_failed row and the reversing entry; the step that takes it to   *)
(* reversed adds no fee.                                                   *)
C9_ReturnWritesOneFee ==
    [][ /\ (payment.status # "returned" /\ payment'.status = "returned")
           => /\ NumOfType(stmtEntries', "fee_failed")
                    = NumOfType(stmtEntries, "fee_failed") + 1
              /\ svc.ledgerService => Len(paymentLedger') = Len(paymentLedger) + 1
        /\ (payment.status # "reversed" /\ payment'.status = "reversed")
           => NumOfType(stmtEntries', "fee_failed") = NumOfType(stmtEntries, "fee_failed")
      ]_vars

(* C10 (as claimed): after FailPayment a payment with retries left is      *)
(* pending again, one without stays failed.                                *)
C10_FailedReentersPending ==
    (lastCall.op = "fail" /\ lastCall.err = "none")
    => IF lastCall.attempts < payment.maxRetries
       THEN payment.status = "pending"
       ELSE payment.status = "failed"

(* C10 (amended): FailPayment leaves the payment failed whatever its       *)
(* attempt count; with retries left it only schedules the retry            *)
(* (NextRetryAt one day on, so GetPendingPaymentsForRetry lists it from    *)
(* then), without retries left it schedules nothing; the payment is        *)
(* pending again only after RetryPayment.                                  *)
C10_RetryScheduledNotAutomatic ==
    /\ (lastCall.op = "fail" /\ lastCall.err = "none")
       => /\ payment.status = "failed"
          /\ (payment.nextRetryAt # NoTime) <=> (lastCall.attempts < payment.maxRetries)
          /\ (payment \in GetPendingPaymentsForRetry({payment}, clock))
                <=> (lastCall.attempts < payment.maxRetries /\ payment.nextRetryAt <= clock)
    /\ (payment.status = "pending" /\ payment.previousStatus = "failed")
       => /\ LastTransition = Transition("failed", "pending")
          /\ payment.nextRetryAt = NoTime

(* A payment with retries left has failed, stays failed and is due for a   *)
(* retry.                                                                  *)
C10_Witness ==
    /\ lastCall.op = "fail"
    /\ lastCall.err = "none"
    /\ lastCall.attempts < payment.maxRetries
    /\ payment.status = "failed"
    /\ payment \in GetPendingPaymentsForRetry({payment}, clock)

-----------------------------------------------------------------------------
(* Properties of the ledgers.                                              *)

(* The calls that record a purchase, a refund or a redemption.             *)
EventOps ==
    {"recon_transaction", "recon_refund", "recon_redemption",
     "cc_transaction", "cc_refund", "redeem_cashback"}

(* C2 (as claimed): a purchase, refund or redemption that returns an error *)
(* leaves the statement ledger, the points and cashback ledgers and the    *)
(* card's row exactly as they were before the call.                        *)
C2_EventsAllOrNothing ==
    [][ (nCalls' = nCalls + 1 /\ lastCall'.op \in EventOps /\ lastCall'.err # "none")
        => UNCHANGED storeVars ]_vars

(* C3: a redemption (through the reconciliation service or directly on the *)
(* points ledger service) asking for more points than the balance holds    *)
(* returns the insufficient-points error and appends nothing to the        *)
(* statement ledger or to the points ledger.                               *)
C3_InsufficientPointsRejected ==
    [][ (/\ nCalls' = nCalls + 1
         /\ lastCall'.op \in {"recon_redemption", "points_redemption"}
         /\ lastCall'.points > AvailablePoints(pointsEntries))
        => /\ lastCall'.err = "insufficient_points"
           /\ UNCHANGED <<stmtEntries, pointsEntries, cashbackEntries>> ]_vars

(* An account holding some points was asked for more than it holds and the *)
(* redemption was rejected.                                                *)
C3_Witness ==
    /\ lastCall.op = "recon_redemption"
    /\ lastCall.err = "insufficient_points"
    /\ AvailablePoints(pointsEntries) > 0
    /\ lastCall.points > AvailablePoints(pointsEntries)

(* The points the account held before the concurrent redemptions.          *)
StockedPoints ==
    SumPoints(SelectSeq(pointsEntries, LAMBDA r : r.etype = "earned_transaction"))

(* C4 (as claimed): of two concurrent redemptions each within the balance  *)
(* but together above it, at most one succeeds.                            *)
C4_AtMostOneRedemptionSucceeds ==
    (/\ \A p \in Procs : procs[p].pc = "done" /\ procs[p].points <= StockedPoints
     /\ procs[1].points + procs[2].points > StockedPoints)
    => ~(procs[1].err = "none" /\ procs[2].err = "none")

(* C5 (as claimed): the points balance and the cashback balance, each the  *)
(* sum of its ledger's entries, are never negative.                        *)
C5_BalanceNeverNegative ==
    /\ AvailablePoints(pointsEntries) >= 0
    /\ CashbackAvailable(cashbackEntries) >= 0

(* C6: a call to RecordPayment of the reconciliation service or of the     *)
(* credit card service leaves the points ledger and the cashback ledger    *)
(* (and so both balances) unchanged, and what it appends to the statement  *)
(* ledger is one payment entry, a credit, or nothing when the store        *)
(* refused it.                                                             *)
C6_PaymentWritesStatementOnly ==
    [][ (nCalls' = nCalls + 1 /\ lastCall'.op \in {"recon_payment", "cc_payment"})
        => /\ UNCHANGED <<pointsEntries, cashbackEntries>>
           /\ AvailablePoints(pointsEntries') = AvailablePoints(pointsEntries)
           /\ CashbackAvailable(cashbackEntries') = CashbackAvailable(cashbackEntries)
           /\ \/ stmtEntries' = stmtEntries /\ lastCall'.err # "none"
              \/ /\ Len(stmtEntries') = Len(stmtEntries) + 1
                 /\ SubSeq(stmtEntries', 1, Len(stmtEntries)) = stmtEntries
                 /\ stmtEntries'[Len(stmtEntries')].etype = "payment"
                 /\ stmtEntries'[Len(stmtEntries')].amount = lastCall'.amount
                 /\ ~IsDebit(stmtEntries'[Len(stmtEntries')]) ]_vars

(* A payment was recorded on an account that holds points or cashback.     *)
C6_Witness ==
    /\ lastCall.op \in {"recon_payment", "cc_payment"}
    /\ lastCall.err = "none"
    /\ stmtEntries[Len(stmtEntries)].etype = "payment"
    /\ AvailablePoints(pointsEntries) + CashbackAvailable(cashbackEntries) > 0

(* The last row of a table.                                                *)
LastRow(tbl) == tbl[Len(tbl)]

(* C19 (as claimed): when a purchase or a redemption recorded through the  *)
(* reconciliation service stores a points entry, that entry's              *)
(* statementEntryId is the id of the statement entry stored by the same    *)
(* call, and no other points entry refers to that statement entry.         *)
C19_PointsEntryLinkedToStatementEntry ==
    [][ (/\ nCalls' = nCalls + 1
         /\ lastCall'.op \in {"recon_transaction", "recon_redemption"}
         /\ lastCall'.err = "none"
         /\ Len(pointsEntries') = Len(pointsEntries) + 1)
        => /\ Len(stmtEntries') = Len(stmtEntries) + 1
           /\ LastRow(pointsEntries').stmtId = LastRow(stmtEntries').id
           /\ \A i \in 1..Len(pointsEntries) :
                 pointsEntries[i].stmtId # LastRow(stmtEntries').id ]_vars

(* The points a purchase earned: the points of the earned_transaction row  *)
(* linked to its statement entry, 0 if there is none.                      *)
EarnedBy(originalTransactionID) ==
    LET rows == OriginalPointsRows(pointsEntries, originalTransactionID)
    IN IF rows = {} THEN 0 ELSE (CHOOSE r \in rows : TRUE).points

(* The amount of the purchase a statement entry id names, 0 if none.       *)
PurchaseAmount(originalTransactionID) ==
    IF originalTransactionID \in 1..Len(stmtEntries)
    THEN stmtEntries[originalTransactionID].amount ELSE 0

(* C20 (as claimed): a refund of R with points adjustment against a        *)
(* purchase of T that earned P > 0 points, accepted by the store, lowers   *)
(* the points balance by P * R / T (at most P) through one negative entry  *)
(* linked to the refund's statement entry; against a purchase that earned  *)
(* nothing it writes no points entry.                                      *)
C20_RefundDeductsProportionalPoints ==
    [][ \A R \in Amounts, o \in KnownIds :
          Recon_RecordRefund(R, o, TRUE, "none")
          => IF EarnedBy(o) > 0
             THEN LET P == EarnedBy(o)
                      T == PurchaseAmount(o)
                      share  == IntPart(P * R, T)
                      deduct == IF share > P THEN P ELSE share
                  IN /\ Len(pointsEntries') = Len(pointsEntries) + 1
                     /\ LastRow(pointsEntries').points = -deduct
                     /\ LastRow(pointsEntries').stmtId = LastRow(stmtEntries').id
                     /\ AvailablePoints(pointsEntries')
                          = AvailablePoints(pointsEntries) - deduct
             ELSE pointsEntries' = pointsEntries ]_vars

(***************************************************************************)
(* Properties of the billing cycles                                        *)
(***************************************************************************)

(* The late fees of a cycle that were not reversed.                        *)
LateFeesOf(tbl, cycleID) ==
    {i \in 1..Len(tbl) : /\ tbl[i].statementId = cycleID
                         /\ tbl[i].etype = "fee_late"
                         /\ tbl[i].status # "reversed"}

C12_OnlyListedStatusChanges ==
    [][\A i \in 1..Len(cycles) :
          cycles'[i].status # cycles[i].status
          => <<cycles[i].status, cycles'[i].status>> \in
                {<<"open", "closed">>, <<"closed", "paid">>,
                 <<"closed", "paid_full">>, <<"closed", "past_due">>,
                 <<"past_due", "paid">>, <<"past_due", "delinquent">>}]_vars

C14_CycleCreatedAndClosedOnce ==
    [][\A e \in CycleEnds :
          (/\ GenerateStatement(e, MonthAtHundred, "none")
           /\ \E i \in 1..Len(cycles) : cycles[i].cycleEndDate = e)
          => /\ Len(cycles') = Len(cycles)
             /\ \A i \in 1..Len(cycles) :
                   cycles[i].cycleEndDate = e
                   => cycles'[i].status = IF cycles[i].status = "open" THEN "closed"
                                          ELSE cycles[i].status]_vars

(***************************************************************************)
(* Properties of the interest calculation                                  *)
(***************************************************************************)

C16_InterestChargedAfterUnpaidCycle ==
    (/\ lastCall.op \in {"generate_statement", "calculate_interest"}
     /\ lastCall.prior # NoCycle
     /\ lastCall.prior.status # "paid_full")
    => /\ ~lastCall.interest.waivedDueToGracePeriod
       /\ (lastCall.interest.averageDailyBalance > 0 /\ lastCall.interest.aprUsed > 0)
          => lastCall.interest.interestCharge > 0

(***************************************************************************)
(* Properties of the statement ledger's rows and projection                *)
(***************************************************************************)

(* C17: no UPDATE is issued on a row of the statement ledger or of the     *)
(* points ledger: the rows stored stay as they were inserted.              *)
C17_LedgerRowsNeverUpdated ==
    [][/\ ledgerUpdates' = ledgerUpdates
       /\ \A i \in 1..Len(stmtEntries) : stmtEntries'[i] = stmtEntries[i]
       /\ \A i \in 1..Len(pointsEntries) : pointsEntries'[i] = pointsEntries[i]]_vars

(* C18: the stored projection (the view statement_balances and             *)
(* CalculateStatementBalance) equals the sum over the cleared entries of   *)
(* their signed amounts, +amount for a debit type, -amount for a credit    *)
(* type and the signed amount for an adjustment, pending entries adding    *)
(* nothing, and for an entry of any type GetSignedAmount agrees with what  *)
(* the view takes for it.                                                  *)
C18_ProjectionAgreesWithSignedAmount ==
    LET cleared == SelectSeq(stmtEntries, LAMBDA e : e.status = "cleared")
    IN /\ ViewBalance(stmtEntries) = SignedSum(cleared)
       /\ CalculateStatementBalance(stmtEntries, 0, clock, 0) = SignedSum(cleared)
       /\ \A i \in 1..Len(stmtEntries) :
             GetSignedAmount(stmtEntries[i]) = ViewContribution(stmtEntries[i])

(***************************************************************************)
(* Properties of the validation of requests                                *)
(***************************************************************************)

(* C21: a purchase, payment, refund or redemption whose amount (or number  *)
(* of points) is zero or negative returns an error and leaves the          *)
(* statement ledger, the points ledger, the cashback ledger and the        *)
(* card's available credit as they were.                                   *)
C21_NonPositiveAmountRejected ==
    [][(/\ nCalls' = nCalls + 1
        /\ lastCall'.op \in {"cc_transaction", "cc_payment", "cc_refund",
                             "recon_transaction", "recon_payment", "recon_refund",
                             "recon_redemption", "points_redemption",
                             "redeem_cashback"}
        /\ IF lastCall'.op = "points_redemption" THEN lastCall'.points <= 0
           ELSE IF lastCall'.op = "recon_redemption"
           THEN lastCall'.points <= 0 \/ lastCall'.amount <= 0
           ELSE lastCall'.amount <= 0)
       => /\ lastCall'.err # "none"
          /\ stmtEntries' = stmtEntries
          /\ pointsEntries' = pointsEntries
          /\ cashbackEntries' = cashbackEntries
          /\ cardRow'.availableCredit = cardRow.availableCredit]_vars

(* C24: no fee entry with a zero or negative amount and no redemption      *)
(* entry with zero or positive points is ever stored.                      *)
C24_NoNonPositiveFeeNoNonNegativeRedemption ==
    /\ \A i \in 1..Len(stmtEntries) :
          stmtEntries[i].etype \in FeeTypes => stmtEntries[i].amount > 0
    /\ \A i \in 1..Len(pointsEntries) :
          pointsEntries[i].etype = "redeemed_spent" => pointsEntries[i].points < 0

(* C22: a purchase of more than the available credit of the card it is     *)
(* made with returns an insufficient-credit error, appends nothing to any  *)
(* ledger and leaves the card's row as it was; a purchase of exactly the   *)
(* available credit of a card that can transact is accepted and its entry  *)
(* is stored.                                                              *)
C22_PurchaseOverAvailableCreditRejected ==
    [][\A a \in Amounts, intl \in BOOLEAN :
          /\ (CC_RecordTransaction(a, intl, "none") /\ a > cardObj.availableCredit)
             => /\ lastCall'.err = "insufficient_credit"
                /\ stmtEntries' = stmtEntries
                /\ pointsEntries' = pointsEntries
                /\ cashbackEntries' = cashbackEntries
                /\ cardRow' = cardRow
          /\ (CC_RecordTransaction(a, intl, "none") /\ a = cardObj.availableCredit)
             => /\ lastCall'.err = "none"
                /\ Len(stmtEntries') > Len(stmtEntries)
                /\ stmtEntries'[Len(stmtEntries) + 1].etype = "transaction"
                /\ stmtEntries'[Len(stmtEntries) + 1].amount = a]_vars

(* A purchase of more than the reloaded card's available credit was        *)
(* refused.                                                                *)
C22_Witness ==
    /\ lastCall.op = "cc_transaction"
    /\ lastCall.err = "insufficient_credit"
    /\ cardObj = cardRow
    /\ lastCall.amount > cardRow.availableCredit
    /\ cardRow.availableCredit > 0

(***************************************************************************)
(* Properties of the card's available credit                               *)
(***************************************************************************)

(* C23: after any sequence of calls the available credit stored for the    *)
(* card equals its credit limit minus its current balance, the sum of the  *)
(* signed amounts of its statement entries.                                *)
C23_AvailableCreditIsLimitMinusBalance ==
    cardRow.availableCredit = cardRow.creditLimit - SignedSum(stmtEntries)

(***************************************************************************)
(* Properties of the calculations of the models                            *)
(***************************************************************************)

(* C25: the new balance of a cycle is previousBalance - paymentsReceived   *)
(* + purchases + cashAdvances - refunds + fees + interest + adjustments    *)
(* - cashbackRedeemed for all totals; a negative result is returned as it  *)
(* is.                                                                     *)
C25_NewBalanceFormula ==
    lastCall.op = "calculate_new_balance"
    => LET c == lastCall.cycle
       IN lastCall.result =
             c.previousBalance - c.paymentsReceived + c.purchasesAmount
               + c.cashAdvancesAmount - c.refundsAmount + c.feesAmount
               + c.interestAmount + c.adjustmentsAmount - c.cashbackRedeemed

(* The new balance of a cycle whose payments and credits exceed its        *)
(* charges was calculated and is negative.                                 *)
C25_Witness ==
    /\ lastCall.op = "calculate_new_balance"
    /\ lastCall.cycle.paymentsReceived > lastCall.cycle.previousBalance
                                          + lastCall.cycle.purchasesAmount
                                          + lastCall.cycle.cashAdvancesAmount
                                          + lastCall.cycle.feesAmount
                                          + lastCall.cycle.interestAmount
                                          + lastCall.cycle.adjustmentsAmount
    /\ lastCall.result < 0

(* C26: the minimum payment is zero for a balance of zero or less, the     *)
(* balance itself for a positive balance below minimumPaymentAmount, and   *)
(* otherwise the larger of balance x minimumPaymentPercent and             *)
(* minimumPaymentAmount ($30 for $1,000 at 3% and $25); it never exceeds a *)
(* positive balance.                                                       *)
C26_MinimumPaymentRule ==
    lastCall.op = "calculate_minimum_payment"
    => LET b == lastCall.balance
           percent == (b * cardObj.minimumPaymentPercent) \div 10000
           fixed == cardObj.minimumPaymentAmount
       IN /\ b <= 0 => lastCall.result = 0
          /\ (b > 0 /\ b < fixed) => lastCall.result = b
          /\ b >= fixed
                => lastCall.result = IF percent > fixed THEN percent ELSE fixed
          /\ b > 0 => lastCall.result <= b
          /\ (b = 100000 /\ cardObj.minimumPaymentPercent = 300 /\ fixed = 2500)
                => lastCall.result = 3000

(* The minimum payment of a balance of $15, below the fixed minimum, was   *)
(* calculated: it is the balance.                                          *)
C26_Witness ==
    /\ lastCall.op = "calculate_minimum_payment"
    /\ lastCall.balance > 0
    /\ lastCall.balance < cardObj.minimumPaymentAmount
    /\ lastCall.result = lastCall.balance

(***************************************************************************)
(* Properties of closed billing cycles                                     *)
(***************************************************************************)

(* C27: once a cycle is closed its row stays, and its date boundaries,     *)
(* previous balance, period totals, newBalance and minimumPayment never    *)
(* change; only the payment tracking (paymentsMade, the last payment,      *)
(* minimumPaymentMet) and the status change.                               *)
C27_ClosedCycleKeepsItsTotals ==
    [][\A i \in 1..Len(cycles) :
          cycles[i].status # "open"
          => /\ i <= Len(cycles')
             /\ \A f \in DOMAIN cycles[i] \ {"paymentsMade", "lastPaymentAmount",
                                             "minimumPaymentMet", "status"} :
                   cycles'[i][f] = cycles[i][f]]_vars

(* A payment was applied to a closed cycle with a balance: it met the      *)
(* minimum payment and the cycle is paid.                                  *)
C27_Witness ==
    /\ lastCall.op = "cycle_payment"
    /\ lastCall.err = "none"
    /\ \E i \in 1..Len(cycles) :
          /\ i = lastCall.cycleId
          /\ cycles[i].status = "paid"
          /\ cycles[i].newBalance > 0
          /\ cycles[i].paymentsMade = lastCall.amount

(***************************************************************************)
(* Properties of the fee assessments                                       *)
(***************************************************************************)

C29_OneAnnualFeePerElevenMonths ==
    \A i, j \in 1..Len(stmtEntries) :
        (/\ i # j
         /\ stmtEntries[i].etype = "fee_annual"
         /\ stmtEntries[j].etype = "fee_annual"
         /\ stmtEntries[i].status # "reversed"
         /\ stmtEntries[j].status # "reversed")
        => \/ stmtEntries[i].postingDate - stmtEntries[j].postingDate
                 >= AnnualFeeLookbackMonths * DaysPerMonth
           \/ stmtEntries[j].postingDate - stmtEntries[i].postingDate
                 >= AnnualFeeLookbackMonths * DaysPerMonth

(***************************************************************************)
(* Properties of the points earned by purchases                            *)
(***************************************************************************)

(* C30: under the default rule (PointsPerDollar 0.01, MinAmount $1.00) a   *)
(* purchase of $100 writes a pending statement entry of +$100 and a points *)
(* entry of +100 points that carries the statement entry's id, and a       *)
(* purchase of $0.50 earns no points.                                      *)
C30_HundredDollarsEarnHundredPoints ==
    [][/\ Recon_RecordTransaction(10000, TRUE, "none")
          => /\ Len(stmtEntries') = Len(stmtEntries) + 1
             /\ stmtEntries'[Len(stmtEntries')].etype = "transaction"
             /\ stmtEntries'[Len(stmtEntries')].amount = 10000
             /\ stmtEntries'[Len(stmtEntries')].status = "pending"
             /\ Len(pointsEntries') = Len(pointsEntries) + 1
             /\ pointsEntries'[Len(pointsEntries')].points = 100
             /\ pointsEntries'[Len(pointsEntries')].stmtId
                   = stmtEntries'[Len(stmtEntries')].id
       /\ Recon_RecordTransaction(50, TRUE, "none")
          => /\ Len(stmtEntries') = Len(stmtEntries) + 1
             /\ pointsEntries' = pointsEntries]_vars

(***************************************************************************)
(* Properties of the interest charge                                       *)
(***************************************************************************)

C33_NoInternationalFeeThatRoundsToZero ==
    [][\A a \in {10, 2500} :
          CC_RecordTransaction(a, TRUE, "none")
          => LET cents == (2 * a * cardObj.internationalFeeRate + 10000) \div 20000
                 added == SubSeq(stmtEntries', Len(stmtEntries) + 1, Len(stmtEntries'))
                 fees == SelectSeq(added, LAMBDA e : e.etype = "fee_international")
             IN /\ cents = 0 => fees = <<>>
                /\ cents > 0 => (Len(fees) = 1 /\ fees[1].amount = cents)]_vars

(***************************************************************************)
(* Properties of frozen and closed cards                                   *)
(***************************************************************************)

(* C34: once the card is frozen or closed every purchase fails with the    *)
(* card-frozen or card-closed error and writes nothing, while an active    *)
(* card can transact.                                                      *)
C34_NoPurchaseOnFrozenOrClosedCard ==
    [][\A a \in Amounts :
          CC_RecordTransaction(a, FALSE, "none")
          => /\ cardRow.status \in {"frozen", "closed"}
                => /\ lastCall'.err = (IF cardRow.status = "frozen"
                                       THEN "card_frozen" ELSE "card_closed")
                   /\ stmtEntries' = stmtEntries
                   /\ cashbackEntries' = cashbackEntries
                   /\ cardRow' = cardRow
             /\ (cardRow.status = "active" /\ cardObj = cardRow
                   /\ a <= cardRow.availableCredit)
                => lastCall'.err = "none"]_vars

(***************************************************************************)
(* Properties of purchases recorded at the same time                       *)
(***************************************************************************)

(* C35: no update of the available credit is lost when two purchases are   *)
(* recorded for the same card by callers that loaded the card before       *)
(* either of them wrote: every recorded purchase lowers the stored         *)
(* available credit by the amount it charged, so that after both the       *)
(* stored value is the prior value minus both charges.                     *)
C35_NoLostAvailableCreditUpdate ==
    [][\A a \in Amounts, intl \in BOOLEAN :
          (CC_RecordTransaction(a, intl, "none") /\ lastCall'.err = "none")
          => cardRow'.availableCredit
               = cardRow.availableCredit
                   - (a + (IF intl
                           THEN (2 * a * cardObj.internationalFeeRate + 10000)
                                   \div 20000
                           ELSE 0))]_vars

(***************************************************************************)
(* Properties of the rewards taken back by refunds                         *)
(***************************************************************************)

(* C36: over all the refunds recorded against one purchase, the rewards    *)
(* deducted (the cashback of the earned_refund rows whose refund refers to *)
(* the purchase, and likewise the points) never exceed the rewards the     *)
(* purchase earned.                                                        *)
C36_RefundsNeverDeductMoreThanEarned ==
    /\ \A o \in 1..Len(stmtEntries) :
          SumAmounts(SelectSeq(cashbackEntries,
                               LAMBDA r : /\ r.etype = "earned_refund"
                                          /\ r.stmtId \in 1..Len(stmtEntries)
                                          /\ stmtEntries[r.stmtId].ref = o))
          + SumAmounts(SelectSeq(cashbackEntries,
                                 LAMBDA r : r.etype = "earned" /\ r.stmtId = o))
             >= 0
    /\ SumPoints(SelectSeq(pointsEntries,
                           LAMBDA r : r.etype \in {"earned_transaction",
                                                   "earned_refund"})) >= 0

(***************************************************************************)
(* Properties of consecutive statements                                    *)
(***************************************************************************)

(* C37: a statement generated for a freshly loaded card after a previous   *)
(* cycle, when the payments applied to that cycle are the payment entries  *)
(* posted since its end, has a newBalance equal to the previous cycle's    *)
(* newBalance plus the signed sum of the ledger entries posted in the new  *)
(* cycle's period: every entry, a payment included, is counted exactly     *)
(* once.                                                                   *)
C37_EveryEntryCountedOnceAcrossStatements ==
    [][(/\ lastCall'.op = "generate_statement"
        /\ lastCall'.err = "none"
        /\ nCalls' = nCalls + 1
        /\ lastCall'.prior # NoCycle
        /\ cardObj.lastStatementDate = lastCall'.prior.cycleEndDate
        /\ lastCall'.prior.paymentsMade =
              PeriodSum(stmtEntries, {"payment"}, lastCall'.prior.cycleEndDate + 1,
                        lastCall'.cycleEnd))
       => LET c == cycles'[lastCall'.cycleId]
              charges == PeriodSum(stmtEntries',
                                   {"transaction", "cash_advance", "adjustment"}
                                      \cup FeeTypes,
                                   c.cycleStartDate, c.cycleEndDate)
              credits == PeriodSum(stmtEntries',
                                   {"payment", "refund", "credit", "cashback_redeemed"},
                                   c.cycleStartDate, c.cycleEndDate)
          IN c.newBalance = lastCall'.prior.newBalance + charges - credits]_vars

(***************************************************************************)
(* Properties of concurrent late fee assessment                            *)
(***************************************************************************)

C39_PendingEntryClearsOnceIntoProjection ==
    [][ledgerUpdates' = ledgerUpdates + 1
       => LET i == lastCall'.entryId
          IN IF i \in 1..Len(stmtEntries) /\ stmtEntries[i].status = "pending"
             THEN /\ lastCall'.err = "none"
                  /\ stmtEntries' = [stmtEntries EXCEPT ![i].status = "cleared"]
                  /\ ViewBalance(stmtEntries') =
                        ViewBalance(stmtEntries) + GetSignedAmount(stmtEntries[i])
             ELSE /\ lastCall'.err # "none"
                  /\ stmtEntries' = stmtEntries]_vars

(***************************************************************************)
(* Properties of the attempts of a payment                                 *)
(***************************************************************************)

(* C40: a payment enters processing at most max(1, maxRetries) times: its  *)
(* attemptCount is the number of times it entered processing, changes only *)
(* by one and only when it enters processing from pending, and a retry     *)
(* requested once attemptCount has reached maxRetries is refused and       *)
(* changes nothing.                                                        *)
C40_ProcessingAttemptsBounded ==
    /\ [](/\ payment.attemptCount =
                Len(SelectSeq(transitions, LAMBDA t : t.to = "processing"))
          /\ payment.attemptCount <=
                IF payment.maxRetries > 1 THEN payment.maxRetries ELSE 1)
    /\ [][/\ payment'.attemptCount # payment.attemptCount
             => /\ payment'.attemptCount = payment.attemptCount + 1
                /\ payment.status = "pending"
                /\ payment'.status = "processing"
          /\ (payment.status # "processing" /\ payment'.status = "processing")
             => payment'.attemptCount = payment.attemptCount + 1
          /\ (payment.attemptCount >= payment.maxRetries /\ payment'.status = "pending")
             => payment.status = "pending"]_vars

(* A payment that used all its retries: it failed for the third time and   *)
(* the retry asked for was refused.                                        *)
C40_Witness ==
    /\ payment.maxRetries = MaxRetriesMax
    /\ payment.attemptCount = payment.maxRetries
    /\ payment.status = "failed"
    /\ lastCall.op = "retry"
    /\ lastCall.err = "cannot_retry"
    /\ Len(SelectSeq(transitions, LAMBDA t : t.to = "processing")) = MaxRetriesMax

====
